---- MODULE Spec2Model ----
(***************************************************************************)
(* CoffeDB storage engine: write-ahead log, skip-list memtable, B-tree,    *)
(* secondary indexes and the engine coordinator (internal/storage).        *)
(*                                                                         *)
(* Strings are sequences of byte codes, so that fmt.Sprintf("%s:%s"),      *)
(* prefix tests, slicing and the lexicographic order of Go strings are     *)
(* computed rather than assumed.                                           *)
(***************************************************************************)
EXTENDS Integers, Sequences, FiniteSets, TLC

VARIABLES
    memtable,   \* Engine.memtable: [data, size, count]
    btree,      \* Engine.btree: the in-memory root node [Keys, Values]
    indexes,    \* Engine.indexes: indexKey -> Index.entries
    walFile,    \* wal.log on disk: the gob stream, one frame per WriteEntry
    walErr,     \* the sticky error of WAL.writer (bufio.Writer)
    dataDb,     \* data.db on disk: the serialized root, or <<>> when empty
    mu,         \* Engine.mu: Free, or the caller holding it exclusively
    pc,         \* position of each caller inside its engine call
    loc,        \* locals of each caller: key, collection, id, doc
    flushes,    \* spawned "go e.flushMemtable()" goroutines not yet run
    now,        \* time.Now(), a logical clock
    faults,     \* I/O failures the disk has produced so far
    hist,       \* acknowledged writes of the running process, in lock order
    lastBy,     \* the caller of the last acknowledged write, 0 when none
    compacting, \* Engine.compacting
    readers     \* the threads holding Engine.mu shared (RLock)

vars == <<memtable, btree, indexes, walFile, walErr, dataDb, mu, pc, loc,
          flushes, now, faults, hist, lastBy, compacting, readers>>

-----------------------------------------------------------------------------
(* Bounds of the model *)

MaxWal == 3           \* records the log may hold
MaxFlushes == 1       \* flush goroutines spawned and not yet run
MaxFaults == 1        \* I/O failures of the disk
MaxIndexes == 1       \* secondary indexes created
MemtableSize == 68    \* config.MemtableSize, the flush threshold in bytes

-----------------------------------------------------------------------------
(* Byte codes of the characters used *)

ChColon == 58
ChDot == 46
ChZero == 48

Procs == {1, 2}
Free == 0

\* "u" and "uv": the first is a proper prefix of the second
Collections == {<<117>>, <<117, 118>>}
Fields == {<<102>>}                        \* "f"

\* The (collection, id) pairs the callers use: u/1 and uv/1.  With the
\* threshold above, a memtable holding uv:1 (68 bytes) is full and one
\* holding u:1 alone (67 bytes) is not.
Names ==
    {[c |-> <<117>>, id |-> <<49>>], [c |-> <<117, 118>>, id |-> <<49>>]}

\* Calls with an empty collection or an empty id
EmptyNames ==
    {[c |-> <<>>, id |-> <<49>>], [c |-> <<117, 118>>, id |-> <<>>]}

-----------------------------------------------------------------------------
(* Go strings *)

RECURSIVE Less(_, _)
Less(a, b) ==
    IF b = <<>> THEN FALSE
    ELSE IF a = <<>> THEN TRUE
    ELSE IF Head(a) # Head(b) THEN Head(a) < Head(b)
    ELSE Less(Tail(a), Tail(b))

HasPrefix(s, prefix) ==
    Len(s) >= Len(prefix) /\ SubSeq(s, 1, Len(prefix)) = prefix

RECURSIVE Digits(_)
Digits(n) ==
    IF n < 10 THEN <<ChZero + n>>
    ELSE Digits(n \div 10) \o <<ChZero + (n % 10)>>

\* The keys of S in ascending order
RECURSIVE SortedKeys(_)
SortedKeys(S) ==
    IF S = {} THEN <<>>
    ELSE LET least == CHOOSE k \in S : \A j \in S \ {k} : Less(k, j)
         IN  <<least>> \o SortedKeys(S \ {least})

-----------------------------------------------------------------------------
(* Values of a document body: interface{} holding int, int64, float64,     *)
(* string or bool.  n is the number (or 0/1 for a bool), s the string.  An *)
(* int64 is used for the integers from 2^53 on, which do not all have a    *)
(* float64: there n is the distance from 2^53.                             *)

IntV(n) == [k |-> "int", n |-> n, s |-> <<>>]
Int64V(n) == [k |-> "int64", n |-> n, s |-> <<>>]
FloatV(n) == [k |-> "float64", n |-> n, s |-> <<>>]
StrV(s) == [k |-> "string", n |-> 0, s |-> s]
BoolV(b) == [k |-> "bool", n |-> IF b THEN 1 ELSE 0, s |-> <<>>]
Missing == [k |-> "missing", n |-> 0, s |-> <<>>]

\* 2^53 = 9007199254740992 in decimal, split before its last two digits
TwoTo53Head == <<57, 48, 48, 55, 49, 57, 57, 50, 53, 52, 55, 52, 48, 57>>
TwoTo53Tail == 92

\* fmt.Sprintf("%v", value), for an int64 up to 2^53 + 7
Stringify(v) ==
    CASE v.k = "string" -> v.s
      [] v.k = "bool" -> IF v.n = 1 THEN <<116, 114, 117, 101>>
                         ELSE <<102, 97, 108, 115, 101>>
      [] v.k = "int64" -> TwoTo53Head \o Digits(TwoTo53Tail + v.n)
      [] OTHER -> Digits(v.n)

Body(v) == [f \in Fields |-> v]
Bodies == {Body(IntV(3)), Body(StrV(<<52>>))}
Filters == {Body(Missing), Body(IntV(3)), Body(FloatV(3))}

NilDoc ==
    [ID |-> <<>>, Data |-> Body(Missing), CreatedAt |-> 0, UpdatedAt |-> 0,
     Version |-> 0]

Key(collection, id) == collection \o <<ChColon>> \o id

-----------------------------------------------------------------------------
(* Filter/compare utility *)

IsNum(v) == v.k \in {"int", "int64", "float64"}

\* float64(val): exact up to 2^53; from there to 2^54 the float64s are the
\* even integers and the conversion rounds to the nearest, a tie going to
\* the one whose mantissa (2^53 + n) / 2 is even
toFloat64(v) ==
    IF v.k # "int64" THEN [big |-> FALSE, n |-> v.n]
    ELSE IF v.n % 2 = 0 THEN [big |-> TRUE, n |-> v.n]
    ELSE IF ((v.n - 1) \div 2) % 2 = 0 THEN [big |-> TRUE, n |-> v.n - 1]
    ELSE [big |-> TRUE, n |-> v.n + 1]

\* valuesEqual without the conversion of numbers
valuesEqual_NoWidening(a, b) ==
    \/ a = b
    \/ a.k = "string" /\ b.k = "string" /\ a.s = b.s
    \/ a.k = "bool" /\ b.k = "bool" /\ a.n = b.n

valuesEqual(a, b) ==
    \/ a = b
    \/ IsNum(a) /\ IsNum(b) /\ toFloat64(a) = toFloat64(b)
    \/ a.k = "string" /\ b.k = "string" /\ a.s = b.s
    \/ a.k = "bool" /\ b.k = "bool" /\ a.n = b.n

matchesFilter(doc, filter) ==
    \A key \in Fields :
        filter[key] # Missing =>
            /\ doc.Data[key] # Missing
            /\ valuesEqual(doc.Data[key], filter[key])

-----------------------------------------------------------------------------
(* Skip-list memtable, as the ordered map it implements *)

EstimateValueSize == 64

NewMemtable == [data |-> [k \in {} |-> NilDoc], size |-> 0, count |-> 0]

MemtablePut(m, key, value) ==
    IF key \in DOMAIN m.data
    THEN [m EXCEPT !.data = [k \in DOMAIN m.data |->
                                IF k = key THEN value ELSE m.data[k]]]
    ELSE [data |-> [k \in DOMAIN m.data \cup {key} |->
                       IF k = key THEN value ELSE m.data[k]],
          size |-> m.size + Len(key) + EstimateValueSize,
          count |-> m.count + 1]

MemtableHas(m, key) == key \in DOMAIN m.data

MemtableDelete(m, key) ==
    IF key \in DOMAIN m.data
    THEN [data |-> [k \in DOMAIN m.data \ {key} |-> m.data[k]],
          size |-> m.size - (Len(key) + EstimateValueSize),
          count |-> m.count - 1]
    ELSE m

\* Memtable.Range: the entries whose key starts with prefix, ascending
MemtableRange(m, prefix) ==
    LET keys == SortedKeys({k \in DOMAIN m.data : HasPrefix(k, prefix)})
    IN  [i \in 1..Len(keys) |-> [key |-> keys[i], value |-> m.data[keys[i]]]]

MemtableIsEmpty(m) == m.count = 0

-----------------------------------------------------------------------------
(* Disk B-tree.  A node is the record of BTreeNode without Parent, which   *)
(* splitChild sets and nothing reads; Children holds the child nodes       *)
(* themselves.  Positions from sort.SearchStrings are 0-based as in the    *)
(* code, sequences are 1-based.                                            *)

btreeOrder == 256

\* the root loadRoot creates on an empty file
NewRoot ==
    [IsLeaf |-> TRUE, Keys |-> <<>>, Values |-> <<>>, Children |-> <<>>,
     Modified |-> FALSE]

\* sort.SearchStrings on a sorted slice: the number of keys below key
SearchStrings(keys, key) ==
    Cardinality({i \in 1..Len(keys) : Less(keys[i], key)})

InsertAt(seq, pos, x) ==
    SubSeq(seq, 1, pos) \o <<x>> \o SubSeq(seq, pos + 1, Len(seq))

RemoveAt(seq, pos) ==
    SubSeq(seq, 1, pos) \o SubSeq(seq, pos + 2, Len(seq))

\* insertIntoLeaf that appends instead of inserting at the position found
insertIntoLeaf_Appends(node, key, value) ==
    LET pos == SearchStrings(node.Keys, key)
    IN  IF pos < Len(node.Keys) /\ node.Keys[pos + 1] = key
        THEN [node EXCEPT !.Values[pos + 1] = value, !.Modified = TRUE]
        ELSE [node EXCEPT !.Keys = Append(@, key),
                          !.Values = Append(@, value),
                          !.Modified = TRUE]

insertIntoLeaf(node, key, value) ==
    LET pos == SearchStrings(node.Keys, key)
    IN  IF pos < Len(node.Keys) /\ node.Keys[pos + 1] = key
        THEN [node EXCEPT !.Values[pos + 1] = value, !.Modified = TRUE]
        ELSE [node EXCEPT !.Keys = InsertAt(@, pos, key),
                          !.Values = InsertAt(@, pos, value),
                          !.Modified = TRUE]

findChildIndex(node, key) == SearchStrings(node.Keys, key)

\* splitChild leaving the middle key in the new sibling as well
splitChild_KeepsMiddle(parent, childIndex) ==
    LET child == parent.Children[childIndex + 1]
        midIndex == Len(child.Keys) \div 2
        newNode ==
            [IsLeaf |-> child.IsLeaf,
             Keys |-> SubSeq(child.Keys, midIndex + 1, Len(child.Keys)),
             Values |-> SubSeq(child.Values, midIndex + 1, Len(child.Values)),
             Children |-> IF child.IsLeaf THEN <<>>
                          ELSE SubSeq(child.Children, midIndex + 2,
                                      Len(child.Children)),
             Modified |-> FALSE]
        oldNode ==
            [child EXCEPT !.Keys = SubSeq(@, 1, midIndex),
                          !.Values = SubSeq(@, 1, midIndex),
                          !.Children = IF child.IsLeaf THEN @
                                       ELSE SubSeq(@, 1, midIndex + 1)]
    IN  [parent EXCEPT
            !.Keys = InsertAt(@, childIndex, child.Keys[midIndex + 1]),
            !.Values = InsertAt(@, childIndex, child.Values[midIndex + 1]),
            !.Children = InsertAt([@ EXCEPT ![childIndex + 1] = oldNode],
                                  childIndex + 1, newNode),
            !.Modified = TRUE]

splitChild(parent, childIndex) ==
    LET child == parent.Children[childIndex + 1]
        midIndex == Len(child.Keys) \div 2
        newNode ==
            [IsLeaf |-> child.IsLeaf,
             Keys |-> SubSeq(child.Keys, midIndex + 2, Len(child.Keys)),
             Values |-> SubSeq(child.Values, midIndex + 2, Len(child.Values)),
             Children |-> IF child.IsLeaf THEN <<>>
                          ELSE SubSeq(child.Children, midIndex + 2,
                                      Len(child.Children)),
             Modified |-> FALSE]
        oldNode ==
            [child EXCEPT !.Keys = SubSeq(@, 1, midIndex),
                          !.Values = SubSeq(@, 1, midIndex),
                          !.Children = IF child.IsLeaf THEN @
                                       ELSE SubSeq(@, 1, midIndex + 1)]
    IN  [parent EXCEPT
            !.Keys = InsertAt(@, childIndex, child.Keys[midIndex + 1]),
            !.Values = InsertAt(@, childIndex, child.Values[midIndex + 1]),
            !.Children = InsertAt([@ EXCEPT ![childIndex + 1] = oldNode],
                                  childIndex + 1, newNode),
            !.Modified = TRUE]

\* BTree.insert: a leaf takes the pair; an internal node hands it to the
\* child and splits that child when it has grown past btreeOrder - 1 keys
RECURSIVE insert(_, _, _)
insert(node, key, value) ==
    IF node.IsLeaf THEN insertIntoLeaf(node, key, value)
    ELSE LET childIndex == findChildIndex(node, key)
             grown == [node EXCEPT !.Children[childIndex + 1] =
                                       insert(@, key, value)]
         IN  IF Len(grown.Children[childIndex + 1].Keys) > btreeOrder - 1
             THEN splitChild(grown, childIndex)
             ELSE grown

\* BTree.Put: the root is never nil once loadRoot has run
BTreePut(root, key, value) == insert(root, key, value)

\* BTree.search
RECURSIVE search(_, _)
search(node, key) ==
    LET pos == SearchStrings(node.Keys, key)
    IN  IF pos < Len(node.Keys) /\ node.Keys[pos + 1] = key
        THEN [found |-> TRUE, doc |-> node.Values[pos + 1]]
        ELSE IF node.IsLeaf THEN [found |-> FALSE, doc |-> NilDoc]
        ELSE search(node.Children[pos + 1], key)

\* BTree.Get: found is FALSE for the error "key not found"
BTreeGet(root, key) == search(root, key)

\* the leaf deleteFromInternal walks to: last child after last child
RECURSIVE Predecessor(_)
Predecessor(node) ==
    IF node.IsLeaf THEN node
    ELSE Predecessor(node.Children[Len(node.Children)])

RECURSIVE delete(_, _)

\* the subtree with its Predecessor leaf replaced
RECURSIVE WithPredecessor(_, _)
WithPredecessor(node, leaf) ==
    IF node.IsLeaf THEN leaf
    ELSE [node EXCEPT !.Children[Len(node.Children)] =
                          WithPredecessor(@, leaf)]

deleteFromInternal(node, pos) ==
    LET pred == Predecessor(node.Children[pos + 1])
        predKey == pred.Keys[Len(pred.Keys)]
        predValue == pred.Values[Len(pred.Values)]
        r == delete(pred, predKey)
    IN  [node |-> [node EXCEPT
                      !.Keys[pos + 1] = predKey,
                      !.Values[pos + 1] = predValue,
                      !.Modified = TRUE,
                      !.Children[pos + 1] = WithPredecessor(@, r.node)],
         err |-> r.err]

\* delete that drops the last pair of the leaf, whatever the key
delete_DropsLast(node, key) ==
    IF node.Keys = <<>> THEN [node |-> node, err |-> "key not found"]
    ELSE [node |-> [node EXCEPT !.Keys = RemoveAt(@, Len(node.Keys) - 1),
                                !.Values = RemoveAt(@, Len(node.Values) - 1),
                                !.Modified = TRUE],
          err |-> "nil"]

\* BTree.delete: the node afterwards and the error returned
delete(node, key) ==
    LET pos == SearchStrings(node.Keys, key)
    IN  IF pos < Len(node.Keys) /\ node.Keys[pos + 1] = key
        THEN IF node.IsLeaf
             THEN [node |-> [node EXCEPT !.Keys = RemoveAt(@, pos),
                                         !.Values = RemoveAt(@, pos),
                                         !.Modified = TRUE],
                   err |-> "nil"]
             ELSE deleteFromInternal(node, pos)
        ELSE IF node.IsLeaf THEN [node |-> node, err |-> "key not found"]
        ELSE LET r == delete(node.Children[pos + 1], key)
             IN  [node |-> [node EXCEPT !.Children[pos + 1] = r.node],
                  err |-> r.err]

BTreeDelete(root, key) == delete(root, key)

\* the loop of rangeSearch over the keys of a leaf, from position i
RECURSIVE LeafMatches(_, _, _)
LeafMatches(node, prefix, i) ==
    IF i > Len(node.Keys) THEN <<>>
    ELSE (IF HasPrefix(node.Keys[i], prefix) THEN <<node.Values[i]>>
          ELSE <<>>)
         \o LeafMatches(node, prefix, i + 1)

\* rangeSearch that stops at the first key with the prefix
rangeSearch_FirstOnly(node, prefix) ==
    LET all == LeafMatches(node, prefix, 1)
    IN  IF all = <<>> THEN <<>> ELSE <<all[1]>>

RECURSIVE rangeSearch(_, _)

\* the loop of rangeSearch over the keys of an internal node
RECURSIVE ChildMatches(_, _, _)
ChildMatches(node, prefix, i) ==
    IF i > Len(node.Keys) THEN <<>>
    ELSE (IF ~Less(node.Keys[i], prefix)
          THEN rangeSearch(node.Children[i], prefix) ELSE <<>>)
         \o ChildMatches(node, prefix, i + 1)

\* BTree.rangeSearch
rangeSearch(node, prefix) ==
    IF node.IsLeaf THEN LeafMatches(node, prefix, 1)
    ELSE ChildMatches(node, prefix, 1)
         \o (IF Len(node.Children) > 0
             THEN rangeSearch(node.Children[Len(node.Children)], prefix)
             ELSE <<>>)

BTreeRange(root, prefix) == rangeSearch(root, prefix)

\* encoding/gob, as flush and loadRoot use it on data.db.  A struct goes
\* out as those of its fields that differ from the zero value, and the
\* decoder leaves the fields it does not receive at zero; a map goes out as
\* its entries; a value held in an interface{} goes out under the name its
\* type is registered with, which the records of IntV..BoolV carry as k.
GobStruct(rec, zero) ==
    [f \in {g \in DOMAIN rec : rec[g] # zero[g]} |-> rec[f]]

GobFill(wire, zero) ==
    [f \in DOMAIN zero |-> IF f \in DOMAIN wire THEN wire[f] ELSE zero[f]]

GobMap(data) == [f \in {g \in DOMAIN data : data[g] # Missing} |-> data[f]]

GobMapFill(wire) ==
    [f \in Fields |-> IF f \in DOMAIN wire THEN wire[f] ELSE Missing]

GobDocument(doc) ==
    [name |-> "*storage.Document",
     value |-> GobStruct([doc EXCEPT !.Data = GobMap(@)],
                         [NilDoc EXCEPT !.Data = GobMap(@)])]

GobDocumentFill(wire) ==
    [GobFill(wire.value, [NilDoc EXCEPT !.Data = GobMap(@)])
        EXCEPT !.Data = GobMapFill(@)]

ZeroNode ==
    [IsLeaf |-> FALSE, Keys |-> <<>>, Values |-> <<>>, Children |-> <<>>,
     Modified |-> FALSE]

RECURSIVE GobNode(_)
GobNode(node) ==
    GobStruct([node EXCEPT
                  !.Values = [i \in 1..Len(@) |-> GobDocument(@[i])],
                  !.Children = [i \in 1..Len(@) |-> GobNode(@[i])]],
              ZeroNode)

RECURSIVE GobNodeFill(_)
GobNodeFill(wire) ==
    [GobFill(wire, ZeroNode) EXCEPT
        !.Values = [i \in 1..Len(@) |-> GobDocumentFill(@[i])],
        !.Children = [i \in 1..Len(@) |-> GobNodeFill(@[i])]]

\* BTree.loadRoot: an empty file gives a fresh leaf, otherwise the root is
\* decoded from the start of the file
loadRoot(file) == IF file = <<>> THEN NewRoot ELSE GobNodeFill(file[1])

\* flush that writes at the end of the file instead of replacing it
BTreeFlush_NoTruncate(file, root) == Append(file, GobNode(root))

\* BTree.flush: seek to 0, truncate, encode the root
BTreeFlush(file, root) == <<GobNode(root)>>

-----------------------------------------------------------------------------
(* Secondary index: entries maps a stringified value to a list of ids *)

NewIndex == [v \in {} |-> <<>>]

InSeq(x, seq) == \E i \in 1..Len(seq) : seq[i] = x

\* Index.Put without the scan for an id the bucket already lists
IndexPut_Appends(entries, value, docID) ==
    [v \in DOMAIN entries \cup {value} |->
        IF v = value
        THEN Append(IF value \in DOMAIN entries THEN entries[value] ELSE <<>>,
                    docID)
        ELSE entries[v]]

IndexPut(entries, value, docID) ==
    LET bucket == IF value \in DOMAIN entries THEN entries[value] ELSE <<>>
        next == IF InSeq(docID, bucket) THEN bucket ELSE Append(bucket, docID)
    IN  [v \in DOMAIN entries \cup {value} |->
            IF v = value THEN next ELSE entries[v]]

IndexGet(entries, value) ==
    IF value \in DOMAIN entries THEN entries[value] ELSE <<>>

\* the slice without its first element equal to x
RemoveFirst(seq, x) ==
    IF InSeq(x, seq)
    THEN LET i == CHOOSE j \in 1..Len(seq) :
                      seq[j] = x /\ \A h \in 1..(j - 1) : seq[h] # x
         IN  SubSeq(seq, 1, i - 1) \o SubSeq(seq, i + 1, Len(seq))
    ELSE seq

IndexDelete(entries, docID) ==
    LET pruned == [v \in DOMAIN entries |-> RemoveFirst(entries[v], docID)]
    IN  [v \in {w \in DOMAIN pruned : pruned[w] # <<>>} |-> pruned[v]]

IndexKey(collection, field) == collection \o <<ChDot>> \o field

\* the test both updateIndexes and removeFromIndexes apply to an index key
IndexOfCollection(indexKey, collection) ==
    /\ Len(indexKey) > Len(collection)
    /\ SubSeq(indexKey, 1, Len(collection)) = collection

updateIndexes(idx, collection, id, doc) ==
    [indexKey \in DOMAIN idx |->
        IF IndexOfCollection(indexKey, collection)
        THEN LET field == SubSeq(indexKey, Len(collection) + 2, Len(indexKey))
             IN  IF field \in Fields /\ doc.Data[field] # Missing
                 THEN IndexPut(idx[indexKey], Stringify(doc.Data[field]), id)
                 ELSE idx[indexKey]
        ELSE idx[indexKey]]

removeFromIndexes(idx, collection, id) ==
    [indexKey \in DOMAIN idx |->
        IF IndexOfCollection(indexKey, collection)
        THEN IndexDelete(idx[indexKey], id)
        ELSE idx[indexKey]]

RECURSIVE IndexDocs(_, _, _, _)
IndexDocs(entries, docs, field, i) ==
    IF i > Len(docs) THEN entries
    ELSE IndexDocs(IF docs[i].Data[field] # Missing
                   THEN IndexPut(entries, Stringify(docs[i].Data[field]),
                                 docs[i].ID)
                   ELSE entries,
                   docs, field, i + 1)

buildIndex(m, root, collection, field) ==
    LET prefix == collection \o <<ChColon>>
        inMem == MemtableRange(m, prefix)
        memDocs == [i \in 1..Len(inMem) |-> inMem[i].value]
    IN  IndexDocs(IndexDocs(NewIndex, memDocs, field, 1),
                  BTreeRange(root, prefix), field, 1)

-----------------------------------------------------------------------------
(* Write-ahead log.  WriteEntry makes a new gob.Encoder for every entry,   *)
(* so every entry's frame opens with the type definitions the encoder has  *)
(* not yet sent: WALEntry always, Document when the entry carries one.     *)
(* ReadEntries decodes the whole file with one gob.Decoder, which fails    *)
(* with "duplicate type received" on a definition of a type it knows.      *)

PutEntry(key, doc, time) ==
    [Type |-> "WALPut", Key |-> key, Value |-> doc, Timestamp |-> time]

DeleteEntry(key, time) ==
    [Type |-> "WALDelete", Key |-> key, Value |-> NilDoc, Timestamp |-> time]

Encode(entry) ==
    [types |-> {"WALEntry"} \cup
               (IF entry.Type = "WALPut" THEN {"Document"} ELSE {}),
     entry |-> entry,
     torn |-> FALSE]

TornFrame == [types |-> {}, entry |-> DeleteEntry(<<>>, 0), torn |-> TRUE]

\* What can happen in WriteEntry: Encode fails on a writer with a sticky
\* error; Flush fails having written part of the frame or nothing; Sync
\* fails after the frame reached the file.
WalOutcomes(err, failures) ==
    IF err THEN {"encode_err"}
    ELSE {"ok"} \cup (IF failures < MaxFaults
                      THEN {"flush_torn", "flush_none", "sync_err"} ELSE {})

IsFault(outcome) == outcome \in {"flush_torn", "flush_none", "sync_err"}

\* WriteEntry that leaves the record in the buffer of the bufio.Writer
WriteEntry_Unflushed(file, entry, outcome) ==
    IF outcome = "flush_torn" THEN Append(file, TornFrame) ELSE file

WriteEntry(file, entry, outcome) ==
    CASE outcome \in {"ok", "sync_err"} -> Append(file, Encode(entry))
      [] outcome = "flush_torn" -> Append(file, TornFrame)
      [] OTHER -> file

WriteError(err, outcome) == err \/ outcome \in {"flush_torn", "flush_none"}

RECURSIVE Decode(_, _, _)
Decode(file, i, known) ==
    IF i > Len(file) THEN <<>>
    ELSE IF file[i].torn \/ file[i].types \cap known # {} THEN <<>>
    ELSE <<file[i].entry>> \o Decode(file, i + 1, known \cup file[i].types)

\* ReadEntries giving up on a log it cannot decode to the end
ReadEntries_FailsOnDamage(file) ==
    IF Len(Decode(file, 1, {})) = Len(file) THEN Decode(file, 1, {}) ELSE <<>>

ReadEntries(file) == Decode(file, 1, {})

-----------------------------------------------------------------------------
(* Engine coordinator: the reads *)

\* Get that probes the B-tree before the memtable
Get_BTreeFirst(m, root, collection, id) ==
    LET key == Key(collection, id)
    IN  IF BTreeGet(root, key).found
        THEN BTreeGet(root, key)
        ELSE IF MemtableHas(m, key)
        THEN [found |-> TRUE, doc |-> m.data[key]]
        ELSE [found |-> FALSE, doc |-> NilDoc]

\* Engine.Get
Get(m, root, collection, id) ==
    LET key == Key(collection, id)
    IN  IF MemtableHas(m, key)
        THEN [found |-> TRUE, doc |-> m.data[key]]
        ELSE BTreeGet(root, key)

\* Engine.Query
Query(m, root, collection, filter) ==
    LET prefix == collection \o <<ChColon>>
        Matches(doc) == matchesFilter(doc, filter)
        inMem == MemtableRange(m, prefix)
        memDocs == [i \in 1..Len(inMem) |-> inMem[i].value]
    IN  SelectSeq(memDocs, Matches) \o SelectSeq(BTreeRange(root, prefix), Matches)

\* Engine.recover: replay the decoded entries into the memtable
RECURSIVE Replay(_, _, _)
Replay(m, entries, i) ==
    IF i > Len(entries) THEN m
    ELSE Replay(IF entries[i].Type = "WALPut"
                THEN MemtablePut(m, entries[i].Key, entries[i].Value)
                ELSE MemtableDelete(m, entries[i].Key),
                entries, i + 1)

recover(file) == Replay(NewMemtable, ReadEntries(file), 1)

\* The loop of flushMemtable passing over the keys the B-tree already has
RECURSIVE FlushInto_KeepsOld(_, _, _)
FlushInto_KeepsOld(root, entries, i) ==
    IF i > Len(entries) THEN root
    ELSE FlushInto_KeepsOld(IF BTreeGet(root, entries[i].key).found THEN root
                            ELSE BTreePut(root, entries[i].key,
                                          entries[i].value),
                            entries, i + 1)

\* The loop of flushMemtable: every entry of the old memtable, ascending
RECURSIVE FlushInto(_, _, _)
FlushInto(root, entries, i) ==
    IF i > Len(entries) THEN root
    ELSE FlushInto(BTreePut(root, entries[i].key, entries[i].value),
                   entries, i + 1)

-----------------------------------------------------------------------------
(* Engine coordinator: the state machine *)

NilLoc ==
    [key |-> <<>>, collection |-> <<>>, id |-> <<>>, doc |-> NilDoc,
     time |-> 0, outcome |-> "none"]

Init ==
    /\ memtable = NewMemtable
    /\ btree = NewRoot
    /\ indexes = [k \in {} |-> NewIndex]
    /\ walFile = <<>>
    /\ walErr = FALSE
    /\ dataDb = <<>>
    /\ mu = Free
    /\ pc = [p \in Procs |-> "idle"]
    /\ loc = [p \in Procs |-> NilLoc]
    /\ flushes = 0
    /\ now = 1
    /\ faults = 0
    /\ hist = <<>>
    /\ lastBy = 0
    /\ compacting = FALSE
    /\ readers = {}

\* Put without the look-up of the existing document
NewDocument_NoLookup(m, key, id, data, time) ==
    [ID |-> id, Data |-> data, CreatedAt |-> time, UpdatedAt |-> time,
     Version |-> 1]

\* The document Put builds before it writes anything
NewDocument(m, key, id, data, time) ==
    IF MemtableHas(m, key)
    THEN [ID |-> id, Data |-> data, CreatedAt |-> m.data[key].CreatedAt,
          UpdatedAt |-> time, Version |-> m.data[key].Version + 1]
    ELSE [ID |-> id, Data |-> data, CreatedAt |-> time, UpdatedAt |-> time,
          Version |-> 1]

\* Whether WriteEntry returned an error
WriteFailed(outcome) == outcome # "ok"

\* Put, from e.mu.Lock() to the return of e.wal.WriteEntry
PutWrite(p, collection, id, data) ==
    /\ pc[p] = "idle"
    /\ mu = Free
    /\ readers = {}
    /\ Len(walFile) < MaxWal
    /\ flushes < MaxFlushes
    /\ \E outcome \in WalOutcomes(walErr, faults) :
          LET key == Key(collection, id)
              doc == NewDocument(memtable, key, id, data, now)
          IN  /\ walFile' = WriteEntry(walFile, PutEntry(key, doc, now), outcome)
              /\ walErr' = WriteError(walErr, outcome)
              /\ pc' = [pc EXCEPT ![p] = IF WriteFailed(outcome)
                                         THEN "put_err" ELSE "put_apply"]
              /\ loc' = [loc EXCEPT ![p] =
                            [key |-> key, collection |-> collection, id |-> id,
                             doc |-> doc, time |-> now, outcome |-> outcome]]
              /\ faults' = IF IsFault(outcome) THEN faults + 1 ELSE faults
    /\ mu' = p
    /\ now' = IF walFile' # walFile THEN now + 1 ELSE now
    /\ UNCHANGED <<compacting, readers, memtable, btree, indexes, dataDb, flushes, hist, lastBy>>

\* Put going on to the memtable after a WAL error
PutFail_FallsThrough(p) ==
    /\ pc[p] = "put_err"
    /\ memtable' = MemtablePut(memtable, loc[p].key, loc[p].doc)
    /\ pc' = [pc EXCEPT ![p] = "idle"]
    /\ loc' = [loc EXCEPT ![p] = NilLoc]
    /\ mu' = Free
    /\ UNCHANGED <<compacting, readers, btree, indexes, walFile, walErr, dataDb, flushes,
                   now, faults, hist, lastBy>>

\* Put returning the WAL error: the deferred Unlock
PutFail(p) ==
    /\ pc[p] = "put_err"
    /\ pc' = [pc EXCEPT ![p] = "idle"]
    /\ loc' = [loc EXCEPT ![p] = NilLoc]
    /\ mu' = Free
    /\ UNCHANGED <<compacting, readers, memtable, btree, indexes, walFile, walErr, dataDb, flushes,
                   now, faults, hist, lastBy>>

\* Put, from e.memtable.Put to return nil
\* Put asking for a flush only above the threshold, not at it
PutApply_AboveOnly(p) ==
    /\ pc[p] = "put_apply"
    /\ memtable' = MemtablePut(memtable, loc[p].key, loc[p].doc)
    /\ indexes' = updateIndexes(indexes, loc[p].collection, loc[p].id, loc[p].doc)
    /\ flushes' = IF memtable'.size > MemtableSize THEN flushes + 1 ELSE flushes
    /\ hist' = Append(hist, [op |-> "put", key |-> loc[p].key,
                             doc |-> loc[p].doc])
    /\ lastBy' = p
    /\ pc' = [pc EXCEPT ![p] = "idle"]
    /\ loc' = [loc EXCEPT ![p] = NilLoc]
    /\ mu' = Free
    /\ UNCHANGED <<compacting, readers, btree, walFile, walErr, dataDb, now, faults>>

PutApply(p) ==
    /\ pc[p] = "put_apply"
    /\ memtable' = MemtablePut(memtable, loc[p].key, loc[p].doc)
    /\ indexes' = updateIndexes(indexes, loc[p].collection, loc[p].id, loc[p].doc)
    /\ flushes' = IF memtable'.size >= MemtableSize THEN flushes + 1 ELSE flushes
    /\ hist' = Append(hist, [op |-> "put", key |-> loc[p].key,
                             doc |-> loc[p].doc])
    /\ lastBy' = p
    /\ pc' = [pc EXCEPT ![p] = "idle"]
    /\ loc' = [loc EXCEPT ![p] = NilLoc]
    /\ mu' = Free
    /\ UNCHANGED <<compacting, readers, btree, walFile, walErr, dataDb, now, faults>>

\* Delete, from e.mu.Lock() to the return of e.wal.WriteEntry
DeleteWrite(p, collection, id) ==
    /\ pc[p] = "idle"
    /\ mu = Free
    /\ readers = {}
    /\ Len(walFile) < MaxWal
    /\ \E outcome \in WalOutcomes(walErr, faults) :
          LET key == Key(collection, id)
          IN  /\ walFile' = WriteEntry(walFile, DeleteEntry(key, now), outcome)
              /\ walErr' = WriteError(walErr, outcome)
              /\ pc' = [pc EXCEPT ![p] = IF WriteFailed(outcome)
                                         THEN "delete_err" ELSE "delete_apply"]
              /\ loc' = [loc EXCEPT ![p] =
                            [key |-> key, collection |-> collection, id |-> id,
                             doc |-> NilDoc, time |-> now,
                             outcome |-> outcome]]
              /\ faults' = IF IsFault(outcome) THEN faults + 1 ELSE faults
    /\ mu' = p
    /\ now' = IF walFile' # walFile THEN now + 1 ELSE now
    /\ UNCHANGED <<compacting, readers, memtable, btree, indexes, dataDb, flushes, hist, lastBy>>

\* Delete returning the WAL error
DeleteFail(p) ==
    /\ pc[p] = "delete_err"
    /\ pc' = [pc EXCEPT ![p] = "idle"]
    /\ loc' = [loc EXCEPT ![p] = NilLoc]
    /\ mu' = Free
    /\ UNCHANGED <<compacting, readers, memtable, btree, indexes, walFile, walErr, dataDb, flushes,
                   now, faults, hist, lastBy>>

\* Delete, from e.memtable.Delete to return nil
DeleteApply(p) ==
    /\ pc[p] = "delete_apply"
    /\ memtable' = MemtableDelete(memtable, loc[p].key)
    /\ indexes' = removeFromIndexes(indexes, loc[p].collection, loc[p].id)
    /\ hist' = Append(hist, [op |-> "delete", key |-> loc[p].key,
                             doc |-> NilDoc])
    /\ lastBy' = p
    /\ pc' = [pc EXCEPT ![p] = "idle"]
    /\ loc' = [loc EXCEPT ![p] = NilLoc]
    /\ mu' = Free
    /\ UNCHANGED <<compacting, readers, btree, walFile, walErr, dataDb, flushes, now, faults>>

\* CreateIndex building the index again when it is already registered
RegisterIndex_Rebuilds(idx, m, root, collection, field) ==
    [k \in DOMAIN idx \cup {IndexKey(collection, field)} |->
        IF k = IndexKey(collection, field)
        THEN buildIndex(m, root, collection, field)
        ELSE idx[k]]

\* Engine.indexes as CreateIndex leaves it
RegisterIndex(idx, m, root, collection, field) ==
    IF IndexKey(collection, field) \in DOMAIN idx
    THEN idx
    ELSE [k \in DOMAIN idx \cup {IndexKey(collection, field)} |->
            IF k = IndexKey(collection, field)
            THEN buildIndex(m, root, collection, field)
            ELSE idx[k]]

\* What CreateIndex returns
CreateIndexResult(idx, collection, field) ==
    IF IndexKey(collection, field) \in DOMAIN idx
    THEN "index already exists" ELSE "nil"

\* CreateIndex, the whole call under the exclusive lock
CreateIndex(p, collection, field) ==
    /\ pc[p] = "idle"
    /\ mu = Free
    /\ readers = {}
    /\ \/ IndexKey(collection, field) \in DOMAIN indexes
       \/ Cardinality(DOMAIN indexes) < MaxIndexes
    /\ indexes' = RegisterIndex(indexes, memtable, btree, collection, field)
    /\ UNCHANGED <<compacting, readers, memtable, btree, walFile, walErr, dataDb, mu, pc, loc,
                   flushes, now, faults, hist, lastBy>>

\* A spawned flushMemtable goroutine, the whole call under the exclusive lock
FlushMemtable ==
    /\ flushes > 0
    /\ mu = Free
    /\ readers = {}
    /\ flushes' = flushes - 1
    /\ IF MemtableIsEmpty(memtable)
       THEN UNCHANGED <<memtable, btree>>
       ELSE /\ memtable' = NewMemtable
            /\ btree' = FlushInto(btree, MemtableRange(memtable, <<>>), 1)
    /\ UNCHANGED <<compacting, readers, indexes, walFile, walErr, dataDb, mu, pc, loc, now, faults,
                   hist, lastBy>>

\* Close: e.mu.Lock()
CloseLock(p) ==
    /\ pc[p] = "idle"
    /\ mu = Free
    /\ readers = {}
    /\ mu' = p
    /\ pc' = [pc EXCEPT ![p] = "close_flush"]
    /\ UNCHANGED <<compacting, readers, memtable, btree, indexes, walFile, walErr, dataDb, loc,
                   flushes, now, faults, hist, lastBy>>

\* Close: e.flushMemtable(), which starts with e.mu.Lock() on the lock the
\* caller already holds (sync.RWMutex is not reentrant), then wal.Close and
\* btree.Close
CloseFlush(p) ==
    /\ pc[p] = "close_flush"
    /\ mu = Free
    /\ memtable' = IF MemtableIsEmpty(memtable) THEN memtable ELSE NewMemtable
    /\ btree' = IF MemtableIsEmpty(memtable) THEN btree
                ELSE FlushInto(btree, MemtableRange(memtable, <<>>), 1)
    /\ dataDb' = BTreeFlush(dataDb, btree')
    /\ pc' = [pc EXCEPT ![p] = "closed"]
    /\ UNCHANGED <<compacting, readers, indexes, walFile, walErr, mu, loc, flushes, now, faults, hist, lastBy>>

\* The process is killed and NewEngine runs on the same directory
Restart ==
    /\ memtable' = recover(walFile)
    /\ btree' = loadRoot(dataDb)
    /\ indexes' = [k \in {} |-> NewIndex]
    /\ walErr' = FALSE
    /\ mu' = Free
    /\ pc' = [p \in Procs |-> "idle"]
    /\ loc' = [p \in Procs |-> NilLoc]
    /\ flushes' = 0
    /\ hist' = <<>>
    /\ lastBy' = 0
    /\ compacting' = FALSE
    /\ readers' = {}
    /\ UNCHANGED <<compacting, readers, walFile, dataDb, now, faults>>

\* The steps of the engine when the callers in P use it on the names in N
NextOf(P, N) ==
    \/ \E p \in P, n \in N, data \in Bodies :
          PutWrite(p, n.c, n.id, data)
    \/ \E p \in P : PutFail(p)
    \/ \E p \in P : PutApply(p)
    \/ \E p \in P, n \in N : DeleteWrite(p, n.c, n.id)
    \/ \E p \in P : DeleteFail(p)
    \/ \E p \in P : DeleteApply(p)
    \/ \E p \in P, c \in Collections, f \in Fields : CreateIndex(p, c, f)
    \/ FlushMemtable
    \/ \E p \in P : CloseLock(p)
    \/ Restart

\* One caller: every call runs to its return before the next starts, the
\* flush goroutines and the kill of the process interleave freely.
Next == NextOf({1}, Names)

Spec == Init /\ [][Next]_vars

\* Two callers whose calls overlap
NextConcurrent == NextOf(Procs, Names)

SpecConcurrent == Init /\ [][NextConcurrent]_vars

\* One caller passing an empty collection or an empty id
NextEmptyNames == NextOf({1}, EmptyNames)

SpecEmptyNames == Init /\ [][NextEmptyNames]_vars

-----------------------------------------------------------------------------
(* One Index driven directly through Index.Put and Index.Delete *)

IndexIds == {<<49>>, <<50>>, <<51>>}       \* "1", "2", "3"
IndexValues == {<<51>>, <<52>>}            \* "3", "4"
TheIndex == IndexKey(<<117>>, <<102>>)     \* "u.f"

InitIndex ==
    /\ memtable = NewMemtable
    /\ btree = NewRoot
    /\ indexes = [k \in {TheIndex} |-> NewIndex]
    /\ walFile = <<>>
    /\ walErr = FALSE
    /\ dataDb = <<>>
    /\ mu = Free
    /\ pc = [p \in Procs |-> "idle"]
    /\ loc = [p \in Procs |-> NilLoc]
    /\ flushes = 0
    /\ now = 1
    /\ faults = 0
    /\ hist = <<>>
    /\ lastBy = 0
    /\ compacting = FALSE
    /\ readers = {}

IndexPutCall(value, docID) ==
    /\ indexes' = [indexes EXCEPT ![TheIndex] = IndexPut(@, value, docID)]
    /\ UNCHANGED <<compacting, readers, memtable, btree, walFile, walErr, dataDb, mu, pc, loc,
                   flushes, now, faults, hist, lastBy>>

IndexDeleteCall(docID) ==
    /\ indexes' = [indexes EXCEPT ![TheIndex] = IndexDelete(@, docID)]
    /\ UNCHANGED <<compacting, readers, memtable, btree, walFile, walErr, dataDb, mu, pc, loc,
                   flushes, now, faults, hist, lastBy>>

NextIndex ==
    \/ \E value \in IndexValues, docID \in IndexIds : IndexPutCall(value, docID)
    \/ \E docID \in IndexIds : IndexDeleteCall(docID)

SpecIndex == InitIndex /\ [][NextIndex]_vars

-----------------------------------------------------------------------------
(* What the callers have been told, read off hist *)

KeyOf(n) == Key(n.c, n.id)

\* the acknowledged writes to one key, oldest first
HistOf(key) ==
    LET OnKey(e) == e.key = key
    IN  SelectSeq(hist, OnKey)

\* the frames of the log that hold a whole record
Records(file) == {i \in 1..Len(file) : ~file[i].torn}

\* every record of the log was acknowledged to a caller of this process
OnlyThisProcess == faults = 0 /\ Len(walFile) = Len(hist)

-----------------------------------------------------------------------------
(* C1: once Put(collection, id, body) has returned ok, a Get of the key that
   starts afterwards returns a document whose body is that body or the body
   of a write to the key serialized after it, and exactly that body when no
   write followed, whether or not a flush ran in between.  After a Delete
   that followed the last Put, not-found is accepted as well. *)
C1_GetObservesPut ==
    mu = Free =>
        \A n \in Names :
            LET h == HistOf(KeyOf(n))
                puts == {i \in 1..Len(h) : h[i].op = "put"}
                r == Get(memtable, btree, n.c, n.id)
            IN  puts # {} =>
                    LET last == CHOOSE i \in puts : \A j \in puts : j <= i
                    IN  \/ r.found /\ r.doc.Data = h[last].doc.Data
                        \/ last < Len(h) /\ ~r.found

(* C2: Put, then Delete, then Get of one key with no other write to the key
   in between ends with Get returning not-found, also when the key was
   flushed into the B-tree before the Delete. *)
C2_PutDeleteGet ==
    mu = Free =>
        \A n \in Names :
            LET h == HistOf(KeyOf(n))
            IN  (/\ Len(h) >= 2
                 /\ h[Len(h) - 1].op = "put"
                 /\ h[Len(h)].op = "delete")
                => ~Get(memtable, btree, n.c, n.id).found

(* C3: after a sequence of successful Puts on a fresh directory and a kill
   without Close, the engine NewEngine builds on the same directory returns
   from Get, for every key written, the body of the most recent Put to that
   key, also when flushes ran during the sequence. *)
C3_Durability ==
    [][(Restart /\ OnlyThisProcess /\ \A p \in Procs : pc[p] = "idle") =>
          \A n \in Names :
              LET h == HistOf(KeyOf(n))
                  r == Get(memtable', btree', n.c, n.id)
              IN  (h # <<>> /\ \A i \in 1..Len(h) : h[i].op = "put")
                  => r.found /\ r.doc.Data = h[Len(h)].doc.Data]_vars

(* C4: Close, having taken the engine lock, can always go on to flush the
   memtable, close the WAL and the B-tree and return: there is no state in
   which it waits forever. *)
C4_CloseTerminates ==
    \A p \in Procs : pc[p] = "close_flush" => ENABLED CloseFlush(p)

(* C5: across successive successful Puts to one key with no Delete between
   them, each Put stores a version strictly greater than the previous one,
   whether or not a flush moved the key to the B-tree in between. *)
C5_VersionMonotonic ==
    \A n \in Names :
        LET h == HistOf(KeyOf(n))
        IN  \A i \in 1..(Len(h) - 1) :
                (h[i].op = "put" /\ h[i + 1].op = "put")
                => h[i + 1].doc.Version > h[i].doc.Version

(* C6: a Put on a key whose prior document is in the memtable stores
   version = prior.version + 1 and the prior created-at; a Put on a key with
   no prior document (never written, or last Deleted) stores version 1 and
   created-at = now. *)
C6_PutVersioning ==
    [][\A p \in Procs :
          PutApply(p) =>
              LET key == loc[p].key
                  h == HistOf(key)
                  stored == memtable'.data[key]
                  neverWritten ==
                      /\ h = <<>>
                      /\ \A i \in Records(walFile) \ {Len(walFile)} :
                             walFile[i].entry.Key # key
                  deleted == h # <<>> /\ h[Len(h)].op = "delete"
              IN  /\ MemtableHas(memtable, key) =>
                         /\ stored.Version = memtable.data[key].Version + 1
                         /\ stored.CreatedAt = memtable.data[key].CreatedAt
                  /\ (neverWritten \/ deleted) =>
                         /\ stored.Version = 1
                         /\ stored.CreatedAt = loc[p].time]_vars

\* a key Put twice in a row: version 2 with the first Put's created-at
C6_Witness ==
    \E n \in Names :
        LET h == HistOf(KeyOf(n))
        IN  /\ Len(h) = 2
            /\ h[1].op = "put" /\ h[2].op = "put"
            /\ h[2].doc.Version = 2
            /\ h[2].doc.CreatedAt = h[1].doc.CreatedAt
            /\ h[2].doc.UpdatedAt > h[2].doc.CreatedAt
            /\ MemtableHas(memtable, KeyOf(n))
            /\ memtable.data[KeyOf(n)] = h[2].doc

(* C7: two Puts on the same previously absent key issued by two callers
   concurrently: when both have returned, Get returns the body of one of
   them and the stored version is 2. *)
C7_ConcurrentPuts ==
    [][\A p \in Procs :
          (/\ PutApply(p)
           /\ faults = 0
           /\ Len(walFile) = Len(hist) + 1
           /\ lastBy \notin {0, p}
           /\ HistOf(loc[p].key) = <<hist[Len(hist)]>>
           /\ hist[Len(hist)].op = "put")
          => LET r == Get(memtable', btree', loc[p].collection, loc[p].id)
             IN  /\ r.found
                 /\ r.doc.Data \in {loc[p].doc.Data, hist[Len(hist)].doc.Data}
                 /\ r.doc.Version = 2]_vars

(* C8: the WAL record of a Put or Delete is appended before the memtable is
   modified and before the call returns: the memtable never holds a document
   whose Put record is not in the log, a call that is about to touch the
   memtable has its record at the end of the log, and every acknowledged
   write has its record in the log. *)
C8_WalBeforeMemtable ==
    /\ \A key \in DOMAIN memtable.data :
           \E i \in Records(walFile) :
               /\ walFile[i].entry.Type = "WALPut"
               /\ walFile[i].entry.Key = key
               /\ walFile[i].entry.Value = memtable.data[key]
    /\ \A p \in Procs :
           /\ pc[p] = "put_apply" =>
                  /\ walFile # <<>>
                  /\ walFile[Len(walFile)] =
                         Encode(PutEntry(loc[p].key, loc[p].doc, loc[p].time))
                  /\ ~(/\ MemtableHas(memtable, loc[p].key)
                       /\ memtable.data[loc[p].key] = loc[p].doc)
           /\ pc[p] = "delete_apply" =>
                  /\ walFile # <<>>
                  /\ walFile[Len(walFile)] =
                         Encode(DeleteEntry(loc[p].key, loc[p].time))
    /\ \A j \in 1..Len(hist) :
           \E i \in Records(walFile) :
               /\ walFile[i].entry.Key = hist[j].key
               /\ walFile[i].entry.Value = hist[j].doc
               /\ walFile[i].entry.Type =
                      (IF hist[j].op = "put" THEN "WALPut" ELSE "WALDelete")

\* a Put has returned ok, its document is in the memtable and in the log
C8_Witness ==
    /\ hist # <<>>
    /\ hist[Len(hist)].op = "put"
    /\ MemtableHas(memtable, hist[Len(hist)].key)
    /\ memtable.data[hist[Len(hist)].key] = hist[Len(hist)].doc
    /\ walFile[Len(walFile)].entry.Value = hist[Len(hist)].doc

(* C9: when the WAL append fails in Put or Delete, the call returns an error
   and the memtable, the B-tree and every secondary index stay as they were
   before the call, and no flush is requested. *)
C9_WalFailureLeavesState ==
    /\ [](\A p \in Procs :
             pc[p] \in {"put_apply", "delete_apply"} => loc[p].outcome = "ok")
    /\ [][\A p \in Procs :
             (\/ pc[p] = "idle" /\ pc'[p] \in {"put_err", "delete_err"}
              \/ PutFail(p)
              \/ DeleteFail(p))
             => /\ UNCHANGED <<memtable, btree, indexes, flushes, hist>>
                /\ pc'[p] \in {"idle", "put_err", "delete_err"}]_vars

\* a failed Put about to return, on an engine with data and an index
C9_Witness ==
    \E p \in Procs :
        /\ pc[p] = "put_err"
        /\ loc[p].outcome = "sync_err"
        /\ ~MemtableIsEmpty(memtable)
        /\ \E k \in DOMAIN indexes : indexes[k] # NewIndex

(* C10: Query(c, filter) returns exactly the live documents of c (Put and
   not Deleted since) whose current body satisfies the filter. *)
C10_QueryExact ==
    (mu = Free /\ OnlyThisProcess) =>
        \A c \in Collections, filter \in Filters :
            LET got == Query(memtable, btree, c, filter)
                live == {n \in Names :
                            /\ n.c = c
                            /\ HistOf(KeyOf(n)) # <<>>
                            /\ HistOf(KeyOf(n))[Len(HistOf(KeyOf(n)))].op = "put"}
                current(n) == HistOf(KeyOf(n))[Len(HistOf(KeyOf(n)))].doc
            IN  {got[i] : i \in 1..Len(got)} =
                    {current(n) : n \in {m \in live :
                                            matchesFilter(current(m), filter)}}

(* C11: Query never returns two documents for one key: of a key held by both
   the memtable and the B-tree only the memtable version is in the result. *)
C11_QueryDedup ==
    mu = Free =>
        \A c \in Collections, filter \in Filters :
            LET got == Query(memtable, btree, c, filter)
            IN  /\ \A i, j \in 1..Len(got) : i # j => got[i].ID # got[j].ID
                /\ \A i \in 1..Len(got) :
                       MemtableHas(memtable, Key(c, got[i].ID))
                       => got[i] = memtable.data[Key(c, got[i].ID)]

(* C12: Query returns the same documents, as many and with the same bodies,
   right before and right after a flushMemtable, for every collection and
   filter. *)
C12_FlushTransparent ==
    [][FlushMemtable =>
          \A c \in Collections, filter \in Filters :
              LET before == Query(memtable, btree, c, filter)
                  after == Query(memtable', btree', c, filter)
              IN  /\ Len(before) = Len(after)
                  /\ {before[i] : i \in 1..Len(before)} =
                         {after[i] : i \in 1..Len(after)}]_vars

\* the names whose last acknowledged write is a Put
Live == {n \in Names :
            /\ HistOf(KeyOf(n)) # <<>>
            /\ HistOf(KeyOf(n))[Len(HistOf(KeyOf(n)))].op = "put"}

\* the document the last acknowledged Put of a live name stored
Current(n) == HistOf(KeyOf(n))[Len(HistOf(KeyOf(n)))].doc

(* C13: once CreateIndex(c, f) has returned ok, the index c.f returns the id
   of every live document of c whose body has field f, under the stringified
   value of the field: documents that existed when the index was built and
   documents Put afterwards. *)
C13_IndexComplete ==
    mu = Free =>
        \A n \in Live, f \in Fields :
            (/\ IndexKey(n.c, f) \in DOMAIN indexes
             /\ Current(n).Data[f] # Missing)
            => InSeq(n.id, IndexGet(indexes[IndexKey(n.c, f)],
                                    Stringify(Current(n).Data[f])))

(* C14: a secondary index on (c, f) holds entries for live documents' current
   values only: every id a bucket v lists is the id of a live document of c
   whose current body has field f stringifying to v, also after a Put that
   changed or removed the field. *)
C14_IndexSound ==
    (mu = Free /\ OnlyThisProcess) =>
        \A c \in Collections, f \in Fields :
            IndexKey(c, f) \in DOMAIN indexes =>
                \A v \in DOMAIN indexes[IndexKey(c, f)] :
                    \A i \in 1..Len(indexes[IndexKey(c, f)][v]) :
                        \E n \in Live :
                            /\ n.c = c
                            /\ n.id = indexes[IndexKey(c, f)][v][i]
                            /\ Current(n).Data[f] # Missing
                            /\ Stringify(Current(n).Data[f]) = v

(* C15: after Delete(c, id) has returned and until a later Put of (c, id), no
   index of collection c lists id under any value, whether the index existed
   when Delete ran or was created afterwards. *)
C15_DeletedNotIndexed ==
    (mu = Free /\ OnlyThisProcess) =>
        \A n \in Names, f \in Fields :
            (/\ HistOf(KeyOf(n)) # <<>>
             /\ HistOf(KeyOf(n))[Len(HistOf(KeyOf(n)))].op = "delete"
             /\ IndexKey(n.c, f) \in DOMAIN indexes)
            => \A v \in DOMAIN indexes[IndexKey(n.c, f)] :
                   ~InSeq(n.id, indexes[IndexKey(n.c, f)][v])

(* C16: after any sequence of Index.Put and Index.Delete calls every bucket
   lists each id at most once and no bucket is empty; Put appends a new id at
   the end of its bucket and leaves a bucket that already lists the id as it
   is, Delete takes the id out of every bucket and keeps the order of the
   others: buckets are in order of first insertion. *)
C16_IndexBuckets ==
    /\ [](\A v \in DOMAIN indexes[TheIndex] :
             LET bucket == indexes[TheIndex][v]
             IN  /\ bucket # <<>>
                 /\ \A i, j \in 1..Len(bucket) : i # j => bucket[i] # bucket[j])
    /\ [][\A value \in IndexValues, docID \in IndexIds :
             IndexPutCall(value, docID) =>
                 LET old == IndexGet(indexes[TheIndex], value)
                     new == IndexGet(indexes'[TheIndex], value)
                 IN  /\ new = IF InSeq(docID, old) THEN old
                               ELSE Append(old, docID)
                     /\ \A v \in IndexValues \ {value} :
                            IndexGet(indexes'[TheIndex], v) =
                                IndexGet(indexes[TheIndex], v)]_vars
    /\ [][\A docID \in IndexIds :
             IndexDeleteCall(docID) =>
                 \A v \in IndexValues :
                     LET Other(x) == x # docID
                     IN  IndexGet(indexes'[TheIndex], v) =
                             SelectSeq(IndexGet(indexes[TheIndex], v), Other)]_vars

\* two ids under one value, the later one last, and one of them under the
\* other value as well
C16_Witness ==
    /\ TheIndex \in DOMAIN indexes
    /\ IndexGet(indexes[TheIndex], <<51>>) = <<<<50>>, <<49>>>>
    /\ IndexGet(indexes[TheIndex], <<52>>) = <<<<49>>>>

(* C17: CreateIndex(c, f) on an index that exists returns "already exists"
   and leaves the contents of every index and the number of registered
   indexes as they were. *)
C17_CreateIndexExists ==
    [][\A p \in Procs, c \in Collections, f \in Fields :
          (CreateIndex(p, c, f) /\ IndexKey(c, f) \in DOMAIN indexes)
          => /\ CreateIndexResult(indexes, c, f) = "index already exists"
             /\ indexes' = indexes
             /\ Cardinality(DOMAIN indexes') = Cardinality(DOMAIN indexes)]_vars

\* CreateIndex can be called on an index that exists and whose contents are
\* not what a build from the current data would give
C17_Witness ==
    \E c \in Collections, f \in Fields :
        /\ IndexKey(c, f) \in DOMAIN indexes
        /\ ENABLED CreateIndex(1, c, f)
        /\ indexes[IndexKey(c, f)] # NewIndex
        /\ indexes[IndexKey(c, f)] # buildIndex(memtable, btree, c, f)

(* C18: Put and Delete called with an empty collection or an empty id return
   an error without writing: the log is left as it was and the call does not
   go on to the memtable and the indexes. *)
C18_InvalidArgument ==
    [][\A p \in Procs, n \in EmptyNames :
          /\ \A data \in Bodies :
                 PutWrite(p, n.c, n.id, data)
                 => walFile' = walFile /\ pc'[p] # "put_apply"
          /\ DeleteWrite(p, n.c, n.id)
             => walFile' = walFile /\ pc'[p] # "delete_apply"]_vars

(* C19: ReadEntries returns every entry whose WriteEntry returned without
   error, in the order of those calls, however many there are. *)
C19_ReadEntriesComplete ==
    faults = 0 =>
        ReadEntries(walFile) = [i \in 1..Len(walFile) |-> walFile[i].entry]

\* frame i cannot be decoded: it is partial, or it defines a type that a
\* frame before it has defined
Undecodable(file, i) ==
    \/ file[i].torn
    \/ \E j \in 1..(i - 1) : file[j].types \cap file[i].types # {}

(* C20: on a log with a partial or otherwise undecodable record ReadEntries
   stops there and returns exactly the entries of the frames before it, in
   log order; on a log without one it returns them all. *)
C20_ReplayStopsAtDamage ==
    LET bad == {i \in 1..Len(walFile) : Undecodable(walFile, i)}
        stop == IF bad = {} THEN Len(walFile) + 1
                ELSE CHOOSE i \in bad : \A j \in bad : i <= j
    IN  ReadEntries(walFile) = [i \in 1..(stop - 1) |-> walFile[i].entry]

\* a whole record followed by a partial one: the first is returned
C20_Witness ==
    /\ Len(walFile) >= 2
    /\ ~walFile[1].torn
    /\ walFile[2].torn
    /\ ReadEntries(walFile) = <<walFile[1].entry>>
    /\ memtable = recover(walFile)
    /\ ~MemtableIsEmpty(memtable)

-----------------------------------------------------------------------------
(* C21: recovery in NewEngine applies the entries of the log, in log order,
   to the memtable only: afterwards a key is in the memtable exactly when
   the last entry of the log for it is a Put, and it holds that entry's
   document.  Recovery appends nothing to the log, leaves the B-tree as it
   was loaded from its file, requests no flush and registers no index. *)
C21_RecoveryFrame ==
    [][(Restart /\ faults = 0) =>
          LET EntriesOf(key) ==
                  {i \in 1..Len(walFile) : walFile[i].entry.Key = key}
              LastOf(key) ==
                  CHOOSE i \in EntriesOf(key) : \A j \in EntriesOf(key) : j <= i
              logged == {walFile[i].entry.Key : i \in 1..Len(walFile)}
          IN  /\ \A key \in logged :
                    LET e == walFile[LastOf(key)].entry
                    IN  IF e.Type = "WALPut"
                        THEN /\ MemtableHas(memtable', key)
                             /\ memtable'.data[key] = e.Value
                        ELSE ~MemtableHas(memtable', key)
              /\ DOMAIN memtable'.data \subseteq logged
              /\ walFile' = walFile
              /\ dataDb' = dataDb
              /\ btree' = loadRoot(dataDb)
              /\ flushes' = 0
              /\ DOMAIN indexes' = {}]_vars

-----------------------------------------------------------------------------
(* One BTree driven directly through Put, Delete and Close/NewBTree.  hist *)
(* holds, for every key, what the calls so far say Get must answer.        *)

TreeKeys == {<<117, 58, 49>>, <<117, 58, 50>>, <<117, 118, 58, 49>>}
TreePrefixes ==
    {<<>>, <<117>>, <<117, 58>>, <<117, 118, 58>>, <<117, 58, 49>>, <<120>>}
TreeValues ==
    {[ID |-> <<49>>, Data |-> Body(IntV(3)), CreatedAt |-> 1, UpdatedAt |-> 1,
      Version |-> 1],
     [ID |-> <<>>, Data |-> Body(Missing), CreatedAt |-> 1, UpdatedAt |-> 2,
      Version |-> 2]}

NotFound == [found |-> FALSE, doc |-> NilDoc]

InitBTree ==
    /\ memtable = NewMemtable
    /\ btree = NewRoot
    /\ indexes = [k \in {} |-> NewIndex]
    /\ walFile = <<>>
    /\ walErr = FALSE
    /\ dataDb = <<>>
    /\ mu = Free
    /\ pc = [p \in Procs |-> "idle"]
    /\ loc = [p \in Procs |-> NilLoc]
    /\ flushes = 0
    /\ now = 1
    /\ faults = 0
    /\ hist = [key \in TreeKeys |-> NotFound]
    /\ lastBy = 0
    /\ compacting = FALSE
    /\ readers = {}

BTreePutCall(key, value) ==
    /\ btree' = BTreePut(btree, key, value)
    /\ hist' = [hist EXCEPT ![key] = [found |-> TRUE, doc |-> value]]
    /\ UNCHANGED <<compacting, readers, memtable, indexes, walFile, walErr, dataDb, mu, pc, loc,
                   flushes, now, faults, lastBy>>

BTreeDeleteCall(key) ==
    /\ btree' = BTreeDelete(btree, key).node
    /\ hist' = [hist EXCEPT ![key] = NotFound]
    /\ UNCHANGED <<compacting, readers, memtable, indexes, walFile, walErr, dataDb, mu, pc, loc,
                   flushes, now, faults, lastBy>>

\* BTree.Close, then NewBTree on the file it wrote
BTreeReopen ==
    /\ dataDb' = BTreeFlush(dataDb, btree)
    /\ btree' = loadRoot(dataDb')
    /\ UNCHANGED <<compacting, readers, memtable, indexes, walFile, walErr, mu, pc, loc, flushes,
                   now, faults, hist, lastBy>>

NextBTree ==
    \/ \E key \in TreeKeys, value \in TreeValues : BTreePutCall(key, value)
    \/ \E key \in TreeKeys : BTreeDeleteCall(key)
    \/ BTreeReopen

SpecBTree == InitBTree /\ [][NextBTree]_vars

(* C22: BTree.Close followed by NewBTree on the same file gives back the
   tree that was closed: the same keys with the same values in the same
   nodes, for every tree Put and Delete can build. *)
C22_CloseOpenRoundTrip ==
    [][BTreeReopen => btree' = btree]_vars

\* a reopened tree of two or more keys that was modified before the Close
C22_Witness ==
    /\ dataDb # <<>>
    /\ btree = loadRoot(dataDb)
    /\ Len(btree.Keys) >= 2
    /\ btree.Modified
    /\ \E i \in 1..Len(btree.Values) : btree.Values[i].ID = <<>>

-----------------------------------------------------------------------------
(* Documents of one collection with one field of every kind of value, put  *)
(* into the memtable and queried with a filter on that field.              *)

FilterIds == {<<49>>, <<50>>}
FilterValues ==
    {IntV(3), FloatV(3), IntV(4), IntV(1), StrV(<<51>>), BoolV(TRUE),
     Int64V(0), Int64V(1), Int64V(2), Int64V(3)}

FilterDoc(id, v) ==
    [ID |-> id, Data |-> Body(v), CreatedAt |-> 1, UpdatedAt |-> 1,
     Version |-> 1]

FilterPut(id, v) ==
    /\ memtable' = MemtablePut(memtable, Key(<<117>>, id), FilterDoc(id, v))
    /\ UNCHANGED <<compacting, readers, btree, indexes, walFile, walErr, dataDb, mu, pc, loc,
                   flushes, now, faults, hist, lastBy>>

NextFilter == \E id \in FilterIds, v \in FilterValues \cup {Missing} : FilterPut(id, v)

SpecFilter == Init /\ [][NextFilter]_vars

\* the documents Query(u, {f: b}) returns, by ID
Returned(b) ==
    LET r == Query(memtable, btree, <<117>>, Body(b))
    IN  {r[i].ID : i \in 1..Len(r)}

\* the number a numeric value denotes
Number(v) == [big |-> v.k = "int64", n |-> v.n]

\* a number float64 holds exactly: here, one that is not beyond 2^53
Exact(v) == v.k # "int64" \/ v.n = 0

(* C23, as amended: a filter value and a field value that are both numeric
   match when they denote the same number, and only then when neither is
   an integer beyond 2^53; a numeric value matches no string and no
   boolean; a document lacking the field matches no filter on it. *)
C23_NumericWidening ==
    \A id \in FilterIds, b \in FilterValues :
        LET key == Key(<<117>>, id)
            a == memtable.data[key].Data[<<102>>]
        IN  /\ ~MemtableHas(memtable, key) => id \notin Returned(b)
            /\ MemtableHas(memtable, key) =>
                  /\ a = Missing => id \notin Returned(b)
                  /\ (IsNum(a) /\ IsNum(b) /\ Number(a) = Number(b))
                        => id \in Returned(b)
                  /\ (IsNum(a) /\ IsNum(b) /\ Exact(a) /\ Exact(b)
                        /\ id \in Returned(b))
                        => Number(a) = Number(b)
                  /\ (IsNum(a) /\ b.k \in {"string", "bool"})
                        => id \notin Returned(b)
                  /\ (IsNum(b) /\ a.k \in {"string", "bool"})
                        => id \notin Returned(b)

\* an int 3 and a float64 3, both returned for the filter {f: 3}
C23_Witness ==
    /\ MemtableHas(memtable, <<117, 58, 49>>)
    /\ MemtableHas(memtable, <<117, 58, 50>>)
    /\ memtable.data[<<117, 58, 49>>].Data[<<102>>] = IntV(3)
    /\ memtable.data[<<117, 58, 50>>].Data[<<102>>] = FloatV(3)
    /\ Returned(IntV(3)) = FilterIds

(* C23, as written: two numeric values match iff they denote the same
   number. *)
C23_SameNumber ==
    \A id \in FilterIds, b \in FilterValues :
        LET key == Key(<<117>>, id)
            a == memtable.data[key].Data[<<102>>]
        IN  (MemtableHas(memtable, key) /\ IsNum(a) /\ IsNum(b)) =>
                (id \in Returned(b) <=> Number(a) = Number(b))

-----------------------------------------------------------------------------
(* C24: for a key that is in the memtable Get returns the memtable's
   document, also when the B-tree holds the key with another document; for
   a key that is only in the B-tree it returns the B-tree's document; for a
   key in neither it returns the not-found error. *)
C24_MemtableFirst ==
    \A n \in Names :
        LET key == KeyOf(n)
            r == Get(memtable, btree, n.c, n.id)
            onDisk == {i \in 1..Len(btree.Keys) : btree.Keys[i] = key}
        IN  /\ key \in DOMAIN memtable.data =>
                r.found /\ r.doc = memtable.data[key]
            /\ (key \notin DOMAIN memtable.data /\ onDisk # {}) =>
                r.found /\ \A i \in onDisk : r.doc = btree.Values[i]
            /\ (key \notin DOMAIN memtable.data /\ onDisk = {}) => ~r.found

\* a key flushed to the B-tree and written again with another body
C24_Witness ==
    \E n \in Names :
        /\ MemtableHas(memtable, KeyOf(n))
        /\ BTreeGet(btree, KeyOf(n)).found
        /\ BTreeGet(btree, KeyOf(n)).doc # memtable.data[KeyOf(n)]
        /\ Get(memtable, btree, n.c, n.id).doc = memtable.data[KeyOf(n)]

-----------------------------------------------------------------------------
\* the key/value pairs a B-tree leaf root holds
Pairs(root) == {<<root.Keys[i], root.Values[i]>> : i \in 1..Len(root.Keys)}

(* C25: flushMemtable on a memtable that is not empty installs a fresh
   memtable of size 0 and count 0, leaves every entry of the old memtable
   in the B-tree with its value in place of any older value of the key,
   and leaves alone the B-tree entries of the other keys, the log and the
   indexes; on an empty memtable it changes nothing. *)
C25_FlushFrame ==
    [][FlushMemtable =>
          /\ walFile' = walFile /\ dataDb' = dataDb /\ indexes' = indexes
          /\ IF memtable.count = 0
             THEN memtable' = memtable /\ btree' = btree
             ELSE /\ memtable'.size = 0 /\ memtable'.count = 0
                  /\ DOMAIN memtable'.data = {}
                  /\ Pairs(btree') =
                        {<<k, memtable.data[k]>> : k \in DOMAIN memtable.data}
                        \cup {pr \in Pairs(btree) :
                                 pr[1] \notin DOMAIN memtable.data}
                  /\ Len(btree'.Keys) = Cardinality(Pairs(btree'))]_vars

\* after two flushes of one key: the B-tree holds the body of the second
C25_Witness ==
    /\ Len(hist) = 2
    /\ hist[1].op = "put" /\ hist[2].op = "put"
    /\ hist[1].key = hist[2].key
    /\ hist[1].doc.Data # hist[2].doc.Data
    /\ memtable = NewMemtable
    /\ flushes = 0
    /\ BTreeGet(btree, hist[2].key).found
    /\ BTreeGet(btree, hist[2].key).doc = hist[2].doc
    /\ Len(btree.Keys) = 1

-----------------------------------------------------------------------------
(* The engine of a process that keeps running: the steps of Next without   *)
(* the kill.  A flush goroutine waits in e.mu.Lock(), and sync.RWMutex     *)
(* hands the lock to a waiting writer once it is released often enough,    *)
(* hence the strong fairness of FlushMemtable.  The log is kept shorter    *)
(* than under Next.                                                        *)

MaxRunWal == 2

NextRunning ==
    \/ \E n \in Names, data \in Bodies :
          Len(walFile) < MaxRunWal /\ PutWrite(1, n.c, n.id, data)
    \/ PutFail(1)
    \/ PutApply(1)
    \/ \E n \in Names : Len(walFile) < MaxRunWal /\ DeleteWrite(1, n.c, n.id)
    \/ DeleteFail(1)
    \/ DeleteApply(1)
    \/ \E c \in Collections, f \in Fields : CreateIndex(1, c, f)
    \/ FlushMemtable
    \/ CloseLock(1)

SpecRunning == Init /\ [][NextRunning]_vars /\ SF_vars(FlushMemtable)

\* The map Engine.Stats builds from the memtable, the indexes and the flag
Stats(m, idx, flag) ==
    [memtable_size |-> m.size, memtable_count |-> m.count,
     indexes_count |-> Cardinality(DOMAIN idx), compacting |-> flag]

(* C26: a Put that leaves the memtable at or above the threshold requests a
   flush and a Put that leaves it below requests none; if the engine lock
   is free again and again, every requested flush eventually runs; and
   when a flush has run Stats reports a memtable size below the
   threshold. *)
C26_FlushEventually ==
    /\ [][PutApply(1) =>
            IF memtable'.size >= MemtableSize
            THEN flushes' = flushes + 1
            ELSE flushes' = flushes]_vars
    /\ [][FlushMemtable =>
            /\ flushes' = flushes - 1
            /\ Stats(memtable', indexes', compacting').memtable_size < MemtableSize]_vars
    /\ ([]<>(mu = Free)) =>
          ((flushes > 0) ~>
              (flushes = 0
               /\ Stats(memtable, indexes, compacting).memtable_size < MemtableSize))

\* the flush a Put asked for has run and has emptied the memtable
C26_Witness ==
    /\ hist # <<>>
    /\ hist[Len(hist)].op = "put"
    /\ Len(hist[Len(hist)].key) + EstimateValueSize >= MemtableSize
    /\ flushes = 0
    /\ mu = Free
    /\ Stats(memtable, indexes, compacting).memtable_size = 0
    /\ BTreeGet(btree, hist[Len(hist)].key).found

-----------------------------------------------------------------------------
(* One BTree filled through Put with the keys "0", "1", "2", ... *)

MaxFill == 256

BTreeFill ==
    /\ Len(btree.Keys) < MaxFill
    /\ btree' = BTreePut(btree, Digits(Len(btree.Keys)),
                         [NilDoc EXCEPT !.ID = Digits(Len(btree.Keys))])
    /\ UNCHANGED <<compacting, readers, memtable, indexes, walFile, walErr, dataDb, mu, pc, loc,
                   flushes, now, faults, hist, lastBy>>

NextFill == BTreeFill

SpecBTreeFill == InitBTree /\ [][NextFill]_vars

\* the nodes of the tree below and including node
RECURSIVE Nodes(_)
Nodes(node) ==
    {node} \cup UNION {Nodes(node.Children[i]) : i \in 1..Len(node.Children)}

(* C27: after any sequence of BTree.Put from the empty tree no node, the
   root included, holds more than btreeOrder - 1 = 255 keys. *)
C27_NodeCapacity ==
    \A node \in Nodes(btree) : Len(node.Keys) <= btreeOrder - 1

-----------------------------------------------------------------------------
\* the positions at which the nodes of the tree hold key
Holders(root, key) ==
    UNION {{<<node, i>> : i \in {j \in 1..Len(node.Keys) : node.Keys[j] = key}} :
              node \in Nodes(root)}

(* C28: after any sequence of BTree.Put and BTree.Delete, Get(k) returns the
   value of the most recent Put(k) if no Delete(k) followed it and 'key not
   found' otherwise; the tree holds a key it was given once, however often
   it was put; Delete of a key that is not there returns 'key not found'
   and changes nothing, Delete of one that is there returns no error. *)
C28_BTreeIsMap ==
    \A key \in TreeKeys :
        /\ BTreeGet(btree, key) = hist[key]
        /\ Cardinality(Holders(btree, key)) = IF hist[key].found THEN 1 ELSE 0
        /\ IF hist[key].found
           THEN BTreeDelete(btree, key).err = "nil"
           ELSE BTreeDelete(btree, key) = [node |-> btree, err |-> "key not found"]

\* since the tree was last opened one key was overwritten and one deleted
C28_Witness ==
    /\ dataDb # <<>>
    /\ \E k1, k2 \in TreeKeys :
          /\ k1 # k2
          /\ BTreeGet(loadRoot(dataDb), k1).found
          /\ BTreeGet(btree, k1).found
          /\ BTreeGet(btree, k1).doc # BTreeGet(loadRoot(dataDb), k1).doc
          /\ BTreeGet(loadRoot(dataDb), k2).found
          /\ ~BTreeGet(btree, k2).found
          /\ \A k3 \in TreeKeys \ {k1, k2} :
                BTreeGet(btree, k3) = BTreeGet(loadRoot(dataDb), k3)

\* the keys of the subtree below and including node
RECURSIVE KeysBelow(_)
KeysBelow(node) ==
    {node.Keys[i] : i \in 1..Len(node.Keys)}
    \cup UNION {KeysBelow(node.Children[i]) : i \in 1..Len(node.Children)}

(* C29: in every reachable tree the keys of every node are strictly
   ascending, its Keys and Values have the same length, and an internal
   node with n keys has n + 1 children, the keys below child i lying
   between key i - 1 and key i of the node. *)
C29_NodeShape ==
    \A node \in Nodes(btree) :
        /\ \A i \in 1..(Len(node.Keys) - 1) : Less(node.Keys[i], node.Keys[i + 1])
        /\ Len(node.Keys) = Len(node.Values)
        /\ ~node.IsLeaf =>
              /\ Len(node.Children) = Len(node.Keys) + 1
              /\ \A i \in 1..Len(node.Children) :
                    \A key \in KeysBelow(node.Children[i]) :
                        /\ i > 1 => Less(node.Keys[i - 1], key)
                        /\ i <= Len(node.Keys) => Less(key, node.Keys[i])

\* three keys put in descending order
C29_Witness ==
    /\ Len(btree.Keys) = 3
    /\ btree.Modified
    /\ dataDb # <<>>
    /\ Len(loadRoot(dataDb).Keys) = 2
    /\ \A i \in 1..2 : Less(btree.Keys[1], loadRoot(dataDb).Keys[i])

\* how often x occurs in seq
Count(seq, x) == Cardinality({i \in 1..Len(seq) : seq[i] = x})

(* C30: Range(prefix) returns the value of every key of the tree that
   starts with prefix, once for each such key, and nothing else;
   Range("") returns the values of all keys. *)
C30_RangeExact ==
    \A prefix \in TreePrefixes :
        LET r == BTreeRange(btree, prefix)
            keys == {key \in TreeKeys : hist[key].found /\ HasPrefix(key, prefix)}
        IN  /\ Len(r) = Cardinality(keys)
            /\ \A value \in TreeValues :
                  Count(r, value) =
                      Cardinality({key \in keys : hist[key].doc = value})

\* a prefix that selects two of the three keys of the tree
C30_Witness ==
    /\ \A key \in TreeKeys : hist[key].found
    /\ Len(BTreeRange(btree, <<117, 58>>)) = 2
    /\ Len(BTreeRange(btree, <<>>)) = 3
    /\ BTreeRange(btree, <<120>>) = <<>>

-----------------------------------------------------------------------------
(* The skip list behind the memtable.  A node is known by its key; a       *)
(* reference is the header, a node or nil.  forward is indexed from 0 as   *)
(* in the code.                                                            *)

maxLevel == 32

HeaderRef == [t |-> "header", key |-> <<>>]
NilRef == [t |-> "nil", key |-> <<>>]
NodeRef(key) == [t |-> "node", key |-> key]

\* NewMemtable
NewSkipList ==
    [header |-> [i \in 0..(maxLevel - 1) |-> NilRef],
     nodes |-> [k \in {} |-> NilRef],
     level |-> 0, size |-> 0, count |-> 0]

\* ref.forward[i]
Forward(sl, ref, i) ==
    IF ref.t = "header" THEN sl.header[i] ELSE sl.nodes[ref.key].forward[i]

\* Memtable.estimateValueSize
estimateValueSize(value) ==
    IF "k" \notin DOMAIN value THEN EstimateValueSize
    ELSE CASE value.k = "string" -> Len(value.s)
           [] value.k \in {"int", "int64", "float64"} -> 8
           [] value.k = "bool" -> 1
           [] OTHER -> EstimateValueSize

\* the inner loop of the search: along level i while the next key is below key
RECURSIVE Advance(_, _, _, _)
Advance(sl, current, i, key) ==
    LET next == Forward(sl, current, i)
    IN  IF next.t = "node" /\ Less(next.key, key)
        THEN Advance(sl, next, i, key)
        ELSE current

\* the outer loop of the search, from level i down to 0, filling update
RECURSIVE Descend(_, _, _, _, _)
Descend(sl, current, i, key, update) ==
    IF i < 0 THEN [current |-> current, update |-> update]
    ELSE LET c == Advance(sl, current, i, key)
         IN  Descend(sl, c, i - 1, key, [update EXCEPT ![i] = c])

Find(sl, key) ==
    Descend(sl, HeaderRef, sl.level, key, [i \in 0..(maxLevel - 1) |-> NilRef])

\* Put that counts a key again when it replaces its value
SkipPut_CountsUpdates(sl, key, value, newLevel) ==
    LET d == Find(sl, key)
        current == Forward(sl, d.current, 0)
        update == [i \in 0..(maxLevel - 1) |->
                      IF i > sl.level /\ i <= newLevel THEN HeaderRef
                      ELSE d.update[i]]
        new == NodeRef(key)
    IN  IF current.t = "node" /\ current.key = key
        THEN [sl EXCEPT !.nodes[key].value = value, !.count = @ + 1]
        ELSE [header |-> [i \in 0..(maxLevel - 1) |->
                            IF i <= newLevel /\ update[i] = HeaderRef
                            THEN new ELSE sl.header[i]],
              nodes |-> [k \in DOMAIN sl.nodes \cup {key} |->
                  IF k = key
                  THEN [value |-> value,
                        forward |-> [i \in 0..newLevel |->
                                        Forward(sl, update[i], i)]]
                  ELSE [sl.nodes[k] EXCEPT !.forward =
                           [i \in DOMAIN @ |->
                               IF i <= newLevel /\ update[i] = NodeRef(k)
                               THEN new ELSE @[i]]]],
              level |-> IF newLevel > sl.level THEN newLevel ELSE sl.level,
              size |-> sl.size + Len(key) + estimateValueSize(value),
              count |-> sl.count + 1]

\* Memtable.Put, newLevel being what randomLevel returns
SkipPut(sl, key, value, newLevel) ==
    LET d == Find(sl, key)
        current == Forward(sl, d.current, 0)
        update == [i \in 0..(maxLevel - 1) |->
                      IF i > sl.level /\ i <= newLevel THEN HeaderRef
                      ELSE d.update[i]]
        new == NodeRef(key)
    IN  IF current.t = "node" /\ current.key = key
        THEN [sl EXCEPT !.nodes[key].value = value]
        ELSE [header |-> [i \in 0..(maxLevel - 1) |->
                            IF i <= newLevel /\ update[i] = HeaderRef
                            THEN new ELSE sl.header[i]],
              nodes |-> [k \in DOMAIN sl.nodes \cup {key} |->
                  IF k = key
                  THEN [value |-> value,
                        forward |-> [i \in 0..newLevel |->
                                        Forward(sl, update[i], i)]]
                  ELSE [sl.nodes[k] EXCEPT !.forward =
                           [i \in DOMAIN @ |->
                               IF i <= newLevel /\ update[i] = NodeRef(k)
                               THEN new ELSE @[i]]]],
              level |-> IF newLevel > sl.level THEN newLevel ELSE sl.level,
              size |-> sl.size + Len(key) + estimateValueSize(value),
              count |-> sl.count + 1]

\* Memtable.Get; the ttl of a node is never set
SkipGet(sl, key) ==
    LET current == Forward(sl, Find(sl, key).current, 0)
    IN  IF current.t = "node" /\ current.key = key
        THEN [found |-> TRUE, value |-> sl.nodes[key].value]
        ELSE [found |-> FALSE, value |-> Missing]

\* the level Delete leaves: down while the header has nothing on it
RECURSIVE LowerLevel(_, _)
LowerLevel(header, level) ==
    IF level > 0 /\ header[level] = NilRef
    THEN LowerLevel(header, level - 1) ELSE level

\* Memtable.Delete: the list afterwards and the value returned
SkipDelete(sl, key) ==
    LET d == Find(sl, key)
        current == Forward(sl, d.current, 0)
        linked == {i \in 0..sl.level : Forward(sl, d.update[i], i) = current}
        \* the unlinking loop stops at the first level that does not point
        \* at the node
        done == {i \in linked : \A j \in 0..i : j \in linked}
        header == [i \in 0..(maxLevel - 1) |->
                     IF i \in done /\ d.update[i] = HeaderRef
                     THEN sl.nodes[key].forward[i] ELSE sl.header[i]]
    IN  IF current.t = "node" /\ current.key = key
        THEN [sl |-> [header |-> header,
                      nodes |-> [k \in DOMAIN sl.nodes \ {key} |->
                          [sl.nodes[k] EXCEPT !.forward =
                              [i \in DOMAIN @ |->
                                  IF i \in done /\ d.update[i] = NodeRef(k)
                                  THEN sl.nodes[key].forward[i] ELSE @[i]]]],
                      level |-> LowerLevel(header, sl.level),
                      size |-> sl.size -
                               (Len(key) + estimateValueSize(sl.nodes[key].value)),
                      count |-> sl.count - 1],
              removed |-> TRUE]
        ELSE [sl |-> sl, removed |-> FALSE]

\* Memtable.Range: the entries the visitor is called on, when it returns
\* false on its call number stop (and true on all calls when stop is 0)
RECURSIVE Visit(_, _, _, _, _)
Visit(sl, current, prefix, stop, calls) ==
    IF current.t # "node" THEN <<>>
    ELSE IF HasPrefix(current.key, prefix)
    THEN <<[key |-> current.key, value |-> sl.nodes[current.key].value]>>
         \o (IF calls + 1 = stop THEN <<>>
             ELSE Visit(sl, Forward(sl, current, 0), prefix, stop, calls + 1))
    ELSE Visit(sl, Forward(sl, current, 0), prefix, stop, calls)

\* Range that goes on after the visitor has returned false
SkipRange_IgnoresStop(sl, prefix, stop) ==
    Visit(sl, Forward(sl, HeaderRef, 0), prefix, 0, 0)

SkipRange(sl, prefix, stop) ==
    Visit(sl, Forward(sl, HeaderRef, 0), prefix, stop, 0)

(* One Memtable driven directly through Put and Delete; hist holds, for    *)
(* every key, what the calls so far say Get must answer.                   *)

MaxDrawnLevel == 2
MaxSkew == 8

MemValues == {StrV(<<97>>), IntV(3)}

Absent == [found |-> FALSE, value |-> Missing]

\* the bytes Put adds for the entries under keys, as they are now
RECURSIVE Accounted(_, _)
Accounted(sl, keys) ==
    IF keys = {} THEN 0
    ELSE LET key == CHOOSE k \in keys : TRUE
         IN  Len(key) + estimateValueSize(sl.nodes[key].value)
             + Accounted(sl, keys \ {key})

InitMemtable ==
    /\ memtable = NewSkipList
    /\ btree = NewRoot
    /\ indexes = [k \in {} |-> NewIndex]
    /\ walFile = <<>>
    /\ walErr = FALSE
    /\ dataDb = <<>>
    /\ mu = Free
    /\ pc = [p \in Procs |-> "idle"]
    /\ loc = [p \in Procs |-> NilLoc]
    /\ flushes = 0
    /\ now = 1
    /\ faults = 0
    /\ hist = [key \in TreeKeys |-> Absent]
    /\ lastBy = 0
    /\ compacting = FALSE
    /\ readers = {}

SkipPutCall(key, value, newLevel) ==
    /\ memtable' = SkipPut(memtable, key, value, newLevel)
    /\ memtable'.size - Accounted(memtable', DOMAIN memtable'.nodes) <= MaxSkew
    /\ Accounted(memtable', DOMAIN memtable'.nodes) - memtable'.size <= MaxSkew
    /\ hist' = [hist EXCEPT ![key] = [found |-> TRUE, value |-> value]]
    /\ UNCHANGED <<compacting, readers, btree, indexes, walFile, walErr, dataDb, mu, pc, loc,
                   flushes, now, faults, lastBy>>

SkipDeleteCall(key) ==
    /\ memtable' = SkipDelete(memtable, key).sl
    /\ hist' = [hist EXCEPT ![key] = Absent]
    /\ UNCHANGED <<compacting, readers, btree, indexes, walFile, walErr, dataDb, mu, pc, loc,
                   flushes, now, faults, lastBy>>

NextMemtable ==
    \/ \E key \in TreeKeys, value \in MemValues, newLevel \in 0..MaxDrawnLevel :
          SkipPutCall(key, value, newLevel)
    \/ \E key \in TreeKeys : SkipDeleteCall(key)

SpecMemtable == InitMemtable /\ [][NextMemtable]_vars

(* C31: after any sequence of Memtable.Put and Memtable.Delete, whatever
   levels were drawn, Get(k) returns the value of the most recent Put(k)
   and true if no Delete(k) followed it, and false otherwise; Delete(k)
   returns true iff k is present; Count() is the number of keys present
   and IsEmpty() holds iff Count() is 0. *)
C31_SkipListIsMap ==
    /\ \A key \in TreeKeys :
          /\ SkipGet(memtable, key) = hist[key]
          /\ SkipDelete(memtable, key).removed = hist[key].found
    /\ memtable.count = Cardinality({key \in TreeKeys : hist[key].found})
    /\ MemtableIsEmpty(memtable) <=> memtable.count = 0

\* three keys on three different levels, the highest key on the top level
C31_Witness ==
    /\ \A key \in TreeKeys : hist[key].found
    /\ memtable.level = 2
    /\ \E k1, k2, k3 \in TreeKeys :
          /\ Less(k1, k2) /\ Less(k2, k3)
          /\ DOMAIN memtable.nodes[k1].forward = 0..1
          /\ DOMAIN memtable.nodes[k2].forward = 0..0
          /\ DOMAIN memtable.nodes[k3].forward = 0..2

-----------------------------------------------------------------------------
\* the first n elements of seq
Take(seq, n) == SubSeq(seq, 1, IF n < Len(seq) THEN n ELSE Len(seq))

(* C32: Memtable.Range(prefix, visitor) calls the visitor once for each
   present key that starts with prefix, in strictly ascending order of the
   keys and with the key's value, on no other key, and on no further entry
   once the visitor has returned false. *)
C32_RangeVisits ==
    \A prefix \in TreePrefixes, stop \in 0..3 :
        LET present == {key \in TreeKeys : hist[key].found /\ HasPrefix(key, prefix)}
            keys == SortedKeys(present)
            all == [i \in 1..Len(keys) |->
                       [key |-> keys[i], value |-> hist[keys[i]].value]]
        IN  SkipRange(memtable, prefix, stop) =
                IF stop = 0 THEN all ELSE Take(all, stop)

\* three keys present, a prefix that selects two, a visitor stopping at once
C32_Witness ==
    /\ \A key \in TreeKeys : hist[key].found
    /\ Len(SkipRange(memtable, <<117, 58>>, 0)) = 2
    /\ Len(SkipRange(memtable, <<>>, 1)) = 1
    /\ Len(SkipRange(memtable, <<>>, 0)) = 3
    /\ memtable.level > 0


-----------------------------------------------------------------------------
(* The engine lock: readers, the flush goroutine and compact, step by step *)

MaxLockWal == 1       \* records the log may hold while the readers run

Caller == 1
ReaderThreads == {3, 4}
Flusher == 5
Compactors == {6, 7}
LockThreads == {Caller, Flusher} \cup ReaderThreads \cup Compactors

\* e.mu.RLock() granted while a writer holds the lock
RLock_IgnoresWriter(t) ==
    readers' = readers \cup {t}

\* e.mu.RLock(): granted when no writer holds the lock
RLock(t) ==
    /\ mu = Free
    /\ readers' = readers \cup {t}

\* e.mu.RUnlock()
RUnlock(t) == readers' = readers \ {t}

\* e.mu.Lock() granted while readers hold the lock
Lock_IgnoresReaders(t) ==
    /\ mu = Free
    /\ mu' = t

\* e.mu.Lock(): granted when neither a writer nor a reader holds the lock
Lock(t) ==
    /\ mu = Free
    /\ readers = {}
    /\ mu' = t

\* e.mu.Unlock()
Unlock(t) == mu' = Free

InitLock ==
    /\ memtable = NewMemtable
    /\ btree = NewRoot
    /\ indexes = [k \in {} |-> NewIndex]
    /\ walFile = <<>>
    /\ walErr = FALSE
    /\ dataDb = <<>>
    /\ mu = Free
    /\ pc = [t \in LockThreads |-> "idle"]
    /\ loc = [t \in LockThreads |-> NilLoc]
    /\ flushes = 0
    /\ now = 1
    /\ faults = 0
    /\ hist = <<>>
    /\ lastBy = 0
    /\ compacting = FALSE
    /\ readers = {}

\* Get: e.mu.RLock() and the key
GetRLock(t, collection, id) ==
    /\ pc[t] = "idle"
    /\ RLock(t)
    /\ pc' = [pc EXCEPT ![t] = "get_memtable"]
    /\ loc' = [loc EXCEPT ![t] = [collection |-> collection, id |-> id,
                                  key |-> Key(collection, id),
                                  result |-> NotFound]]
    /\ UNCHANGED <<memtable, btree, indexes, walFile, walErr, dataDb, mu,
                   flushes, now, faults, hist, lastBy, compacting>>

\* Get: e.memtable.Get(key), returning the document when it is there
GetMemtable(t) ==
    /\ pc[t] = "get_memtable"
    /\ IF MemtableHas(memtable, loc[t].key)
       THEN /\ loc' = [loc EXCEPT ![t].result =
                          [found |-> TRUE, doc |-> memtable.data[loc[t].key]]]
            /\ pc' = [pc EXCEPT ![t] = "get_return"]
       ELSE /\ pc' = [pc EXCEPT ![t] = "get_btree"]
            /\ UNCHANGED loc
    /\ UNCHANGED <<memtable, btree, indexes, walFile, walErr, dataDb, mu,
                   flushes, now, faults, hist, lastBy, compacting, readers>>

\* Get: e.btree.Get(key)
GetBTree(t) ==
    /\ pc[t] = "get_btree"
    /\ loc' = [loc EXCEPT ![t].result = BTreeGet(btree, loc[t].key)]
    /\ pc' = [pc EXCEPT ![t] = "get_return"]
    /\ UNCHANGED <<memtable, btree, indexes, walFile, walErr, dataDb, mu,
                   flushes, now, faults, hist, lastBy, compacting, readers>>

\* Query: e.mu.RLock() and the prefix
QueryRLock(t, collection, filter) ==
    /\ pc[t] = "idle"
    /\ RLock(t)
    /\ pc' = [pc EXCEPT ![t] = "query_memtable"]
    /\ loc' = [loc EXCEPT ![t] = [collection |-> collection,
                                  filter |-> filter, results |-> <<>>]]
    /\ UNCHANGED <<memtable, btree, indexes, walFile, walErr, dataDb, mu,
                   flushes, now, faults, hist, lastBy, compacting>>

\* Query: e.memtable.Range(prefix, ...) appending the matching documents
QueryMemtable(t) ==
    /\ pc[t] = "query_memtable"
    /\ loc' = [loc EXCEPT ![t].results =
                  Query(memtable, NewRoot, loc[t].collection, loc[t].filter)]
    /\ pc' = [pc EXCEPT ![t] = "query_btree"]
    /\ UNCHANGED <<memtable, btree, indexes, walFile, walErr, dataDb, mu,
                   flushes, now, faults, hist, lastBy, compacting, readers>>

\* Query: e.btree.Range(prefix) and the matching documents appended
QueryBTree(t) ==
    /\ pc[t] = "query_btree"
    /\ loc' = [loc EXCEPT ![t].results =
                  @ \o Query(NewMemtable, btree, loc[t].collection,
                             loc[t].filter)]
    /\ pc' = [pc EXCEPT ![t] = "query_return"]
    /\ UNCHANGED <<memtable, btree, indexes, walFile, walErr, dataDb, mu,
                   flushes, now, faults, hist, lastBy, compacting, readers>>

\* Stats: e.mu.RLock()
StatsRLock(t) ==
    /\ pc[t] = "idle"
    /\ RLock(t)
    /\ pc' = [pc EXCEPT ![t] = "stats_read"]
    /\ UNCHANGED <<memtable, btree, indexes, walFile, walErr, dataDb, mu, loc,
                   flushes, now, faults, hist, lastBy, compacting>>

\* Stats: the map is built from the fields of the engine
StatsRead(t) ==
    /\ pc[t] = "stats_read"
    /\ loc' = [loc EXCEPT ![t] =
                  [stats |-> Stats(memtable, indexes, compacting)]]
    /\ pc' = [pc EXCEPT ![t] = "stats_return"]
    /\ UNCHANGED <<memtable, btree, indexes, walFile, walErr, dataDb, mu,
                   flushes, now, faults, hist, lastBy, compacting, readers>>

\* Get, Query and Stats returning: the deferred e.mu.RUnlock()
ReadReturn(t) ==
    /\ pc[t] \in {"get_return", "query_return", "stats_return"}
    /\ RUnlock(t)
    /\ pc' = [pc EXCEPT ![t] = "idle"]
    /\ loc' = [loc EXCEPT ![t] = NilLoc]
    /\ UNCHANGED <<memtable, btree, indexes, walFile, walErr, dataDb, mu,
                   flushes, now, faults, hist, lastBy, compacting>>

\* flushMemtable: e.mu.Lock()
FlushLock ==
    /\ pc[Flusher] = "idle"
    /\ flushes > 0
    /\ Lock(Flusher)
    /\ flushes' = flushes - 1
    /\ pc' = [pc EXCEPT ![Flusher] = "flush_swap"]
    /\ UNCHANGED <<memtable, btree, indexes, walFile, walErr, dataDb, loc,
                   now, faults, hist, lastBy, compacting, readers>>

\* flushMemtable: the IsEmpty test, then the old memtable is kept and a
\* new one takes its place
FlushSwap ==
    /\ pc[Flusher] = "flush_swap"
    /\ IF MemtableIsEmpty(memtable)
       THEN /\ pc' = [pc EXCEPT ![Flusher] = "flush_unlock"]
            /\ UNCHANGED <<memtable, loc>>
       ELSE /\ loc' = [loc EXCEPT ![Flusher] = [oldMemtable |-> memtable]]
            /\ memtable' = NewMemtable
            /\ pc' = [pc EXCEPT ![Flusher] = "flush_copy"]
    /\ UNCHANGED <<btree, indexes, walFile, walErr, dataDb, mu, flushes,
                   now, faults, hist, lastBy, compacting, readers>>

\* flushMemtable: oldMemtable.Range("", ...) putting every entry in the tree
FlushCopy ==
    /\ pc[Flusher] = "flush_copy"
    /\ btree' = FlushInto(btree, MemtableRange(loc[Flusher].oldMemtable, <<>>), 1)
    /\ pc' = [pc EXCEPT ![Flusher] = "flush_unlock"]
    /\ loc' = [loc EXCEPT ![Flusher] = NilLoc]
    /\ UNCHANGED <<memtable, indexes, walFile, walErr, dataDb, mu, flushes,
                   now, faults, hist, lastBy, compacting, readers>>

\* flushMemtable: the deferred e.mu.Unlock()
FlushUnlock ==
    /\ pc[Flusher] = "flush_unlock"
    /\ Unlock(Flusher)
    /\ pc' = [pc EXCEPT ![Flusher] = "idle"]
    /\ UNCHANGED <<memtable, btree, indexes, walFile, walErr, dataDb, loc,
                   flushes, now, faults, hist, lastBy, compacting, readers>>

\* compact: e.mu.Lock()
CompactLock(t) ==
    /\ pc[t] = "idle"
    /\ Lock(t)
    /\ pc' = [pc EXCEPT ![t] = "compact_check"]
    /\ UNCHANGED <<memtable, btree, indexes, walFile, walErr, dataDb, loc,
                   flushes, now, faults, hist, lastBy, compacting, readers>>

\* compact: return when the flag is set, set it otherwise
CompactCheck(t) ==
    /\ pc[t] = "compact_check"
    /\ IF compacting
       THEN /\ pc' = [pc EXCEPT ![t] = "compact_unlock"]
            /\ UNCHANGED compacting
       ELSE /\ compacting' = TRUE
            /\ pc' = [pc EXCEPT ![t] = "compact_run"]
    /\ UNCHANGED <<memtable, btree, indexes, walFile, walErr, dataDb, mu, loc,
                   flushes, now, faults, hist, lastBy, readers>>

\* compact returning with the flag still set
CompactClear_KeepsFlag(t) ==
    /\ pc[t] = "compact_run"
    /\ pc' = [pc EXCEPT ![t] = "compact_unlock"]
    /\ UNCHANGED <<memtable, btree, indexes, walFile, walErr, dataDb, mu, loc,
                   flushes, now, faults, hist, lastBy, compacting, readers>>

\* compact: the body is empty; the deferred function clears the flag
CompactClear(t) ==
    /\ pc[t] = "compact_run"
    /\ compacting' = FALSE
    /\ pc' = [pc EXCEPT ![t] = "compact_unlock"]
    /\ UNCHANGED <<memtable, btree, indexes, walFile, walErr, dataDb, mu, loc,
                   flushes, now, faults, hist, lastBy, readers>>

\* compact: the deferred e.mu.Unlock()
CompactUnlock(t) ==
    /\ pc[t] = "compact_unlock"
    /\ Unlock(t)
    /\ pc' = [pc EXCEPT ![t] = "idle"]
    /\ UNCHANGED <<memtable, btree, indexes, walFile, walErr, dataDb, loc,
                   flushes, now, faults, hist, lastBy, compacting, readers>>

\* One writing caller, two reading callers, the flush goroutine and compact
\* run side by side
NextLock ==
    \/ \E n \in Names, data \in Bodies :
          Len(walFile) < MaxLockWal /\ PutWrite(Caller, n.c, n.id, data)
    \/ PutFail(Caller)
    \/ PutApply(Caller)
    \/ \E n \in Names : Len(walFile) < MaxLockWal /\ DeleteWrite(Caller, n.c, n.id)
    \/ DeleteFail(Caller)
    \/ DeleteApply(Caller)
    \/ \E c \in Collections, f \in Fields : CreateIndex(Caller, c, f)
    \/ \E t \in ReaderThreads, n \in Names : GetRLock(t, n.c, n.id)
    \/ \E t \in ReaderThreads : GetMemtable(t)
    \/ \E t \in ReaderThreads : GetBTree(t)
    \/ \E t \in ReaderThreads, c \in Collections, filter \in Filters :
          QueryRLock(t, c, filter)
    \/ \E t \in ReaderThreads : QueryMemtable(t)
    \/ \E t \in ReaderThreads : QueryBTree(t)
    \/ \E t \in ReaderThreads : StatsRLock(t)
    \/ \E t \in ReaderThreads : StatsRead(t)
    \/ \E t \in ReaderThreads : ReadReturn(t)
    \/ FlushLock
    \/ FlushSwap
    \/ FlushCopy
    \/ FlushUnlock
    \/ \E t \in Compactors : CompactLock(t)
    \/ \E t \in Compactors : CompactCheck(t)
    \/ \E t \in Compactors : CompactClear(t)
    \/ \E t \in Compactors : CompactUnlock(t)

SpecLock == InitLock /\ [][NextLock]_vars

\* The executions of compact that hold the engine lock
Compacting ==
    {t \in Compactors : pc[t] \in {"compact_check", "compact_run", "compact_unlock"}}

\* A step of compact
CompactStep ==
    \E t \in Compactors :
        CompactLock(t) \/ CompactCheck(t) \/ CompactClear(t) \/ CompactUnlock(t)

(* C33: at most one execution of compact is in progress at any time; the
   compacting flag is set only while an execution of compact is between
   setting and clearing it; and no step of compact changes the memtable,
   the B-tree, the write-ahead log or the indexes. *)
C33_CompactAlone ==
    /\ [](Cardinality(Compacting) <= 1)
    /\ [](compacting => \E t \in Compactors : pc[t] = "compact_run")
    /\ [](Compacting = {} => ~compacting)
    /\ [][CompactStep => UNCHANGED <<memtable, btree, walFile, walErr,
                                     dataDb, indexes>>]_vars

\* compact has set the flag over an engine that holds a document, while the
\* other caller of compact has not entered
C33_Witness ==
    /\ compacting
    /\ pc[6] = "compact_run"
    /\ pc[7] = "idle"
    /\ hist # <<>>

\* The name a reading caller passed to Get
NameOf(t) == [c |-> loc[t].collection, id |-> loc[t].id]

(* C34: a Get or a Query never runs while the flush goroutine, a Put, a
   Delete or a CreateIndex holds the engine lock, so it never sees the
   memtable swapped out with its entries not yet in the B-tree: what Get
   and Query return is what the engine holds at their return, and Get
   finds every key whose last acknowledged write is a Put. *)
C34_ReadersSeeFlushedKeys ==
    /\ readers # {} => /\ mu = Free
                       /\ pc[Caller] = "idle"
                       /\ pc[Flusher] = "idle"
    /\ \A t \in ReaderThreads :
          /\ pc[t] \in {"get_memtable", "get_btree", "get_return",
                        "query_memtable", "query_btree", "query_return"}
                => t \in readers
          /\ pc[t] = "get_return" =>
                /\ loc[t].result =
                       Get(memtable, btree, loc[t].collection, loc[t].id)
                /\ NameOf(t) \in Live => loc[t].result.found
          /\ pc[t] = "query_return" =>
                loc[t].results =
                    Query(memtable, btree, loc[t].collection, loc[t].filter)

\* a Get has found, in the B-tree, a key the flush goroutine moved there
C34_Witness ==
    /\ pc[3] = "get_return"
    /\ loc[3].result.found
    /\ MemtableIsEmpty(memtable)
    /\ NameOf(3) \in Live
    /\ pc[Flusher] = "idle"

(* C39: no call of Stats reports compacting = true. *)
C39_StatsNeverCompacting ==
    \A t \in ReaderThreads :
        pc[t] = "stats_return" => loc[t].stats.compacting = FALSE

\* Stats has built its map while the other reader holds the lock too
C39_Witness ==
    /\ pc[3] = "stats_return"
    /\ loc[3].stats.compacting = FALSE
    /\ loc[3].stats.memtable_count > 0
    /\ 4 \in readers

(* C35: a kill without Close followed by NewEngine on the same directory
   preserves what Get returns: for every key, Get on the recovered engine
   finds a document exactly when Get found one right before the kill, and
   then with the same body. *)
C35_RecoveryPreservesGet ==
    [][(Restart /\ faults = 0 /\ pc[1] = "idle") =>
          \A n \in Names :
              LET before == Get(memtable, btree, n.c, n.id)
                  after == Get(memtable', btree', n.c, n.id)
              IN  /\ after.found = before.found
                  /\ before.found => after.doc.Data = before.doc.Data]_vars

-----------------------------------------------------------------------------
(* Collections and ids that contain the ':' the engine key is built with *)

\* u/"v:1" and "u:v"/1
ColonNames ==
    {[c |-> <<117>>, id |-> <<118, 58, 49>>],
     [c |-> <<117, 58, 118>>, id |-> <<49>>]}

\* One caller using names with a ':' in them
NextColonNames == NextOf({1}, ColonNames)

SpecColonNames == Init /\ [][NextColonNames]_vars

(* C36: collections are isolated.  A Put or a Delete on a collection,
   whatever ':' its name or its id contains, leaves what Get returns for
   every name of another collection and what Query returns for every other
   collection as it was. *)
C36_CollectionsIsolated ==
    [][(PutApply(1) \/ DeleteApply(1)) =>
          \A n \in ColonNames :
              n.c # loc[1].collection =>
                  /\ Get(memtable', btree', n.c, n.id) =
                         Get(memtable, btree, n.c, n.id)
                  /\ \A filter \in Filters :
                         Query(memtable', btree', n.c, filter) =
                             Query(memtable, btree, n.c, filter)]_vars

(* C37: a Put or a Delete on a collection leaves every secondary index of
   every other collection as it was, also when the name of the collection
   written to is a proper prefix of the other's name and the same id is in
   both. *)
C37_IndexFrame ==
    [][(PutApply(1) \/ DeleteApply(1)) =>
          \A c \in Collections, f \in Fields :
              (c # loc[1].collection /\ IndexKey(c, f) \in DOMAIN indexes)
              => indexes'[IndexKey(c, f)] = indexes[IndexKey(c, f)]]_vars

(* C38: the byte-size counter of a memtable is never negative and is 0
   when the memtable is empty, also after a Put replaced a value by one of
   another estimated size and the key was deleted. *)
C38_SizeAccounting ==
    /\ memtable.size >= 0
    /\ memtable.count = 0 => memtable.size = 0

-----------------------------------------------------------------------------
(* splitChild applied to parents with a leaf or an internal child *)

MaxParentKeys == 2    \* keys of the parent before the first split
MaxChildKeys == 4     \* keys of the child that is split first
MaxSplits == 2        \* splits applied to one parent

\* Keys are one byte; child i of the parent owns the bytes between
\* KeySpan * i and KeySpan * (i + 1)
KeySpan == 4 * (MaxChildKeys + 1)

SplitValue(key) == [ID |-> key]

\* A leaf with one key per byte given
SplitLeaf(bytes) ==
    [IsLeaf |-> TRUE,
     Keys |-> [j \in 1..Len(bytes) |-> <<bytes[j]>>],
     Values |-> [j \in 1..Len(bytes) |-> SplitValue(<<bytes[j]>>)],
     Children |-> <<>>, Modified |-> FALSE]

\* Child i of the parent with n keys: a leaf, or an internal node over
\* n + 1 leaves of one key each
SplitChildNode(i, n, leaf) ==
    IF leaf
    THEN SplitLeaf([j \in 1..n |-> KeySpan * i + 3 * j])
    ELSE [SplitLeaf([j \in 1..n |-> KeySpan * i + 3 * j]) EXCEPT
             !.IsLeaf = FALSE,
             !.Children = [g \in 1..(n + 1) |->
                              SplitLeaf(<<KeySpan * i + 3 * g - 2>>)]]

\* A parent with p keys whose child at childIndex has n keys; its other
\* children are leaves of one key
SplitParent(p, childIndex, n, leaf) ==
    [IsLeaf |-> FALSE,
     Keys |-> [j \in 1..p |-> <<KeySpan * j>>],
     Values |-> [j \in 1..p |-> SplitValue(<<KeySpan * j>>)],
     Children |-> [c \in 1..(p + 1) |->
                      IF c = childIndex + 1
                      THEN SplitChildNode(c - 1, n, leaf)
                      ELSE SplitChildNode(c - 1, 1, TRUE)],
     Modified |-> FALSE]

SplitParents ==
    {SplitParent(p, i, n, leaf) :
        p \in 0..MaxParentKeys, i \in 0..MaxParentKeys, n \in 1..MaxChildKeys,
        leaf \in BOOLEAN}

NoSplit == [parent |-> NewRoot, childIndex |-> 0, splits |-> 0]

InitSplit ==
    /\ memtable = NewMemtable
    /\ btree \in SplitParents
    /\ indexes = [k \in {} |-> NewIndex]
    /\ walFile = <<>>
    /\ walErr = FALSE
    /\ dataDb = <<>>
    /\ mu = Free
    /\ pc = [p \in Procs |-> "idle"]
    /\ loc = [p \in Procs |-> NilLoc]
    /\ flushes = 0
    /\ now = 1
    /\ faults = 0
    /\ hist = NoSplit
    /\ lastBy = 0
    /\ compacting = FALSE
    /\ readers = {}

\* bt.splitChild(parent, childIndex) on a child that has a middle key
SplitChildCall(childIndex) ==
    /\ hist.splits < MaxSplits
    /\ childIndex < Len(btree.Children)
    /\ Len(btree.Children[childIndex + 1].Keys) >= 1
    /\ btree' = splitChild(btree, childIndex)
    /\ hist' = [parent |-> btree, childIndex |-> childIndex,
                splits |-> hist.splits + 1]
    /\ UNCHANGED <<compacting, readers, memtable, indexes, walFile, walErr,
                   dataDb, mu, pc, loc, flushes, now, faults, lastBy>>

NextSplit == \E childIndex \in 0..(MaxParentKeys + MaxSplits) : SplitChildCall(childIndex)

SpecSplit == InitSplit /\ [][NextSplit]_vars

\* The keys and values below a node, in the order of the tree
RECURSIVE InOrder(_)
InOrder(node) ==
    IF node.Children = <<>>
    THEN [j \in 1..Len(node.Keys) |-> <<node.Keys[j], node.Values[j]>>]
    ELSE LET RECURSIVE From(_)
             From(c) ==
                 InOrder(node.Children[c]) \o
                 (IF c > Len(node.Keys) THEN <<>>
                  ELSE <<<<node.Keys[c], node.Values[c]>>>> \o
                       (IF c < Len(node.Children) THEN From(c + 1) ELSE <<>>))
         IN  From(1)

\* The nodes two levels below a node, from left to right
Grandchildren(node) ==
    LET RECURSIVE From(_)
        From(c) == IF c > Len(node.Children) THEN <<>>
                   ELSE node.Children[c].Children \o From(c + 1)
    IN  From(1)

\* What splitChild(parent, childIndex) is to leave in after
SplitsAt(parent, childIndex, after) ==
    LET child == parent.Children[childIndex + 1]
        n == Len(child.Keys)
        m == n \div 2
        left == after.Children[childIndex + 1]
        right == after.Children[childIndex + 2]
    IN  /\ Len(after.Keys) = Len(parent.Keys) + 1
        /\ Len(after.Values) = Len(parent.Values) + 1
        /\ Len(after.Children) = Len(parent.Children) + 1
        /\ after.Keys[childIndex + 1] = child.Keys[m + 1]
        /\ after.Values[childIndex + 1] = child.Values[m + 1]
        /\ \A j \in 1..Len(parent.Keys) :
              LET to == IF j <= childIndex THEN j ELSE j + 1
              IN  /\ after.Keys[to] = parent.Keys[j]
                  /\ after.Values[to] = parent.Values[j]
        /\ \A c \in 1..Len(parent.Children) :
              c # childIndex + 1 =>
                  after.Children[IF c <= childIndex THEN c ELSE c + 1] =
                      parent.Children[c]
        /\ left.Keys = SubSeq(child.Keys, 1, m)
        /\ left.Values = SubSeq(child.Values, 1, m)
        /\ right.Keys = SubSeq(child.Keys, m + 2, n)
        /\ right.Values = SubSeq(child.Values, m + 2, n)
        /\ left.IsLeaf = child.IsLeaf
        /\ right.IsLeaf = child.IsLeaf
        /\ IF child.IsLeaf
           THEN left.Children = <<>> /\ right.Children = <<>>
           ELSE /\ Len(left.Children) = m + 1
                /\ left.Children \o right.Children = child.Children
        /\ InOrder(after) = InOrder(parent)
        /\ Grandchildren(after) = Grandchildren(parent)

(* C40: splitChild on a child with n keys moves the key and the value at
   index m = n / 2 into the parent at the child's index, leaves the keys
   before m in the child and puts the keys after m into a new sibling of
   the child's kind right after it; an internal child keeps its first
   m + 1 children and the sibling takes the rest; no key, value or child
   is lost or duplicated and the order of the tree is kept. *)
C40_SplitChild ==
    [][\A childIndex \in 0..(MaxParentKeys + MaxSplits) :
          SplitChildCall(childIndex) => SplitsAt(btree, childIndex, btree')]_vars

\* an internal child with four keys and five children has been split
C40_Witness ==
    /\ hist.splits = 1
    /\ ~hist.parent.Children[hist.childIndex + 1].IsLeaf
    /\ Len(hist.parent.Children[hist.childIndex + 1].Keys) = 4
    /\ Len(btree.Children[hist.childIndex + 1].Children) = 3
    /\ Len(btree.Children[hist.childIndex + 2].Children) = 2
    /\ btree.Keys[hist.childIndex + 1] =
           hist.parent.Children[hist.childIndex + 1].Keys[3]

====
